---- MODULE Spec2Model ----
(***************************************************************************)
(* Stock-Analysis-Agent: the request pipeline (Router.validate_intent and  *)
(* StockAnalysisGraph.run with its five graphs), the synthesizer's         *)
(* weighted score, and the portfolio decision engine.                      *)
(*                                                                         *)
(* Python values are modelled as follows: None is the string "None"; a     *)
(* fetched bundle or a producer's result is a short string naming it; a    *)
(* dict that may miss keys is a record of optional values (Missing/Some);  *)
(* a text the code searches for substrings is a sequence of one-character  *)
(* strings.                                                                *)
(***************************************************************************)
EXTENDS Integers, Sequences, FiniteSets, TLC

VARIABLES
    intent,         \* the classified Intent: [type, tickers]
    pc,             \* position of the request: handler, graph node, or end
    state,          \* GraphState slots of the dict the graph works on
    initial_state,  \* GraphState slots of the dict built by run
    errors,         \* state["errors"]: one list object shared by both dicts
    progress,       \* state["progress"]: likewise shared
    tasks,          \* outcomes of the coroutines of the running gather
    trace,          \* history: stages entered (in order), data-source
                    \* calls made, producer calls started and finished,
                    \* and the calls that did not return a full result
    returned,       \* what the request handler got back
    args,           \* arguments of the pure function under check
    ret,            \* its return value
    holdings,       \* the portfolio rows of analyze_portfolio
    idx,            \* index of the holding being analysed
    stock_analyses  \* analyze_portfolio's stock_analyses list

vars == <<intent, pc, state, initial_state, errors, progress, tasks, trace,
          returned, args, ret, holdings, idx, stock_analyses>>

pipeVars == <<intent, pc, state, initial_state, errors, progress, tasks,
              trace, returned>>
fnVars == <<args, ret>>
pfVars == <<holdings, idx, stock_analyses>>

None == "None"

\* An optional value (a dict key that may be missing, a nullable column):
\* Missing when absent, Some(v) when present with the value v.
Missing == <<>>
Some(v) == <<v>>

----------------------------------------------------------------------------
(* Bounds of the model *)

MaxTickers == 3

----------------------------------------------------------------------------
(* orchestrator/intent_classifier.py *)

PRICE_CHECK == "price_check"
TECHNICAL_ANALYSIS == "technical_analysis"
FUNDAMENTAL_ANALYSIS == "fundamental_analysis"
SENTIMENT_ANALYSIS == "sentiment_analysis"
FULL_ANALYSIS == "full_analysis"
COMPARISON == "comparison"
DEEP_DIVE == "deep_dive"
HELP == "help"
UNKNOWN == "unknown"

IntentType ==
    {PRICE_CHECK, TECHNICAL_ANALYSIS, FUNDAMENTAL_ANALYSIS, SENTIMENT_ANALYSIS,
     FULL_ANALYSIS, COMPARISON, DEEP_DIVE, HELP, UNKNOWN}

TickerNames == {"TCS", "INFY"}

TickerLists == UNION {[1..n -> TickerNames] : n \in 0..MaxTickers}

Intent == [type : IntentType, tickers : TickerLists]

----------------------------------------------------------------------------
(* orchestrator/routing.py *)

\* validate_intent without the ticker count of a comparison.
validate_intent_any_count(i) ==
    IF i.type = UNKNOWN THEN FALSE
    ELSE IF i.type = HELP THEN TRUE
    ELSE IF Len(i.tickers) = 0 THEN FALSE
    ELSE TRUE

\* validate_intent without the "if not intent.tickers" check.
validate_intent_no_tickers(i) ==
    IF i.type = UNKNOWN THEN FALSE
    ELSE IF i.type = HELP THEN TRUE
    ELSE IF i.type = COMPARISON /\ Len(i.tickers) < 2 THEN FALSE
    ELSE TRUE

\* Router.validate_intent: the is_valid component of the returned tuple.
validate_intent(i) ==
    IF i.type = UNKNOWN THEN FALSE
    ELSE IF i.type = HELP THEN TRUE
    ELSE IF Len(i.tickers) = 0 THEN FALSE
    ELSE IF i.type = COMPARISON /\ Len(i.tickers) < 2 THEN FALSE
    ELSE TRUE

----------------------------------------------------------------------------
(* orchestrator/langgraph_flow.py: GraphState and the graphs *)

SlotNames ==
    {"stock_data", "stock_data_2", "news_data", "market_data",
     "fundamental_analysis", "fundamental_analysis_2",
     "technical_analysis", "technical_analysis_2",
     "market_intel_analysis", "risk_analysis",
     "synthesized_recommendation"}

\* run: the slots of initial_state as constructed.
GraphState(i) ==
    [s \in SlotNames \cup {"ticker", "ticker_2"} |->
        IF s = "ticker"
        THEN (IF Len(i.tickers) > 0 THEN i.tickers[1] ELSE "")
        ELSE IF s = "ticker_2"
        THEN (IF Len(i.tickers) > 1 THEN i.tickers[2] ELSE None)
        ELSE None]

\* A dict before run has built one.
NoState == [s \in SlotNames \cup {"ticker", "ticker_2"} |-> None]

\* A graph_map that sends every single-aspect intent to the full graph.
graph_map_full_default(t) ==
    CASE t = PRICE_CHECK -> "collect_price"
      [] t = COMPARISON -> "collect_comparison_data"
      [] OTHER -> "collect_all_data"

\* run: graph_map.get(intent.type, self.full_analysis_graph), as the entry
\* node of the selected compiled graph.
graph_map(t) ==
    CASE t = PRICE_CHECK -> "collect_price"
      [] t \in {TECHNICAL_ANALYSIS, FUNDAMENTAL_ANALYSIS, SENTIMENT_ANALYSIS}
            -> "collect_data"
      [] t = COMPARISON -> "collect_comparison_data"
      [] OTHER -> "collect_all_data"

\* The edges added by the _build_*_graph methods; END leaves the graph.
END == "END"

add_edge(node) ==
    CASE node = "collect_price" -> END
      [] node = "collect_data" -> "run_agent"
      [] node = "run_agent" -> END
      [] node = "collect_all_data" -> "parallel_analysis"
      [] node = "parallel_analysis" -> "risk_analysis_node"
      [] node = "risk_analysis_node" -> "synthesize"
      [] node = "synthesize" -> END
      [] node = "collect_comparison_data" -> "parallel_comparison_analysis"
      [] node = "parallel_comparison_analysis" -> "synthesize_comparison"
      [] node = "synthesize_comparison" -> END

\* The history kept for the ordering properties.
NoTrace ==
    [stages |-> <<>>, fetched |-> {}, started |-> {}, finished |-> {},
     failed |-> {}]

\* A call of callee inside node that ended with outcome o: recorded as
\* <<node, callee, o>> unless it returned a full result.
Failure(node, callee, o) ==
    IF o \in {"data", "ok", "cached"} THEN {} ELSE {<<node, callee, o>>}

\* A node is entered, calling the data sources fs and running the producers
\* ps from start to end; fl are the failures among these calls.
Entered(tr, node, fs, ps, fl) ==
    [stages |-> Append(tr.stages, node),
     fetched |-> tr.fetched \cup fs,
     started |-> tr.started \cup ps,
     finished |-> tr.finished \cup ps,
     failed |-> tr.failed \cup fl]

\* What a data-source call can do: return a bundle, return None, raise.
FetchOutcomes == {"data", "none", "exc"}

\* get_stock_data(include_historical=True) may return a bundle whose
\* historical_ohlcv is empty.
StockOutcomes == {"data", "data_nohist", "none", "exc"}

\* What a producer's analyze can do: return a dict with content, return an
\* empty dict, raise.
ProducerOutcomes == {"ok", "empty", "exc"}

\* The value a producer call evaluates to when it does not raise.
ResultOf(o) == IF o = "ok" THEN "result" ELSE "empty"

\* Python truthiness of a slot value or a result.
Truthy(v) == v \notin {None, "empty", ""}

----------------------------------------------------------------------------
(* The request: StockAnalysisBot._handle_analysis and StockAnalysisGraph.run *)

PipeInit ==
    /\ intent \in Intent
    /\ pc = "received"
    /\ state = NoState
    /\ initial_state = NoState
    /\ errors = <<>>
    /\ progress = <<>>
    /\ tasks = <<>>
    /\ trace = NoTrace
    /\ returned = "none"

\* _handle_analysis: validate, reply with the error or go on to run.
handle_analysis ==
    /\ pc = "received"
    /\ IF validate_intent(intent)
       THEN pc' = "run" /\ returned' = returned
       ELSE pc' = "rejected" /\ returned' = "rejected"
    /\ UNCHANGED <<intent, state, initial_state, errors, progress, tasks,
                   trace, fnVars, pfVars>>

\* run, up to the call of graph.ainvoke (or of the sentiment pre-collection).
run_start ==
    /\ pc = "run"
    /\ state' = GraphState(intent)
    /\ initial_state' = GraphState(intent)
    /\ IF GraphState(intent).ticker = ""
       THEN /\ errors' = Append(errors, "No ticker provided")
            /\ pc' = "returned"
            /\ returned' = "initial_state"
       ELSE /\ errors' = errors
            /\ pc' = IF intent.type = SENTIMENT_ANALYSIS
                     THEN "pre_collect"
                     ELSE graph_map(intent.type)
            /\ returned' = returned
    /\ UNCHANGED <<intent, progress, tasks, trace, fnVars, pfVars>>

\* _collect_price_data; cache is what cache.get_price / get_quick_price did.
collect_price_data ==
    /\ pc = "collect_price"
    /\ \E o \in {"cached", "data", "none", "exc"} :
        /\ state' = IF o \in {"cached", "data"}
                    THEN [state EXCEPT !.stock_data = "price"]
                    ELSE state
        /\ progress' = CASE o = "cached" -> Append(progress, "Price data (cached)")
                         [] o = "data" -> Append(progress, "Price data fetched")
                         [] OTHER -> progress
        /\ errors' = CASE o = "none" -> Append(errors, "Could not fetch price")
                       [] o = "exc" -> Append(errors, "Price fetch error")
                       [] OTHER -> errors
        /\ trace' = Entered(trace, "collect_price", {"price"}, {},
                             Failure("collect_price", "price", o))
    /\ pc' = add_edge("collect_price")
    /\ UNCHANGED <<intent, initial_state, tasks, returned, fnVars, pfVars>>

\* _collect_stock_data
collect_stock_data ==
    /\ pc = "collect_data"
    /\ \E o \in FetchOutcomes :
        /\ state' = IF o = "data"
                    THEN [state EXCEPT !.stock_data = "data"]
                    ELSE state
        /\ progress' = IF o = "data"
                       THEN Append(progress, "Stock data collected")
                       ELSE progress
        /\ errors' = CASE o = "none" -> Append(errors, "Could not fetch data")
                       [] o = "exc" -> Append(errors, "Data collection error")
                       [] OTHER -> errors
        /\ trace' = Entered(trace, "collect_data", {"stock_data"}, {},
                             Failure("collect_data", "stock_data", o))
    /\ pc' = add_edge("collect_data")
    /\ UNCHANGED <<intent, initial_state, tasks, returned, fnVars, pfVars>>

\* _collect_all_data on the dict st: the gather of the three fetches with
\* return_exceptions=True, then the three "Process ..." blocks in order.
collect_all_data_state(st, stock, news, market) ==
    [st EXCEPT
        !.stock_data = IF stock \in {"data", "data_nohist"} THEN stock ELSE @,
        !.news_data = IF news = "data" THEN "data" ELSE @,
        !.market_data = IF market = "data" THEN "data" ELSE @]

collect_all_data_errors(errs, stock, news, market) ==
    errs
    \o (CASE stock = "exc" -> <<"Stock data error">>
          [] stock = "data_nohist" -> <<"Warning: No historical data">>
          [] OTHER -> <<>>)
    \o (IF news = "exc" THEN <<"News data error">> ELSE <<>>)
    \o (IF market = "exc" THEN <<"Market data error">> ELSE <<>>)

collect_all_data_progress(prog, stock, news, market) ==
    prog
    \o (CASE stock = "data" -> <<"Stock data collected (historical)">>
          [] stock = "data_nohist" -> <<"Stock data collected (no historical)">>
          [] OTHER -> <<>>)
    \o (IF news = "data" THEN <<"News data collected">> ELSE <<>>)
    \o (IF market = "data" THEN <<"Market data collected">> ELSE <<>>)

collect_all_data_trace(tr, node, stock, news, market) ==
    Entered(tr, node, {"stock_data", "news_data", "market_data"}, {},
            Failure(node, "stock_data", stock)
            \cup Failure(node, "news_data", news)
            \cup Failure(node, "market_data", market))

\* run: "if intent.type == IntentType.SENTIMENT_ANALYSIS:
\*         initial_state = await self._collect_all_data(initial_state)"
\* The dict is changed in place and is the one then given to ainvoke.
pre_collect ==
    /\ pc = "pre_collect"
    /\ \E stock \in StockOutcomes, news \in FetchOutcomes,
          market \in FetchOutcomes :
        /\ state' = collect_all_data_state(state, stock, news, market)
        /\ initial_state' = collect_all_data_state(state, stock, news, market)
        /\ errors' = collect_all_data_errors(errors, stock, news, market)
        /\ progress' = collect_all_data_progress(progress, stock, news, market)
        /\ trace' = collect_all_data_trace(trace, "pre_collect",
                                            stock, news, market)
    /\ pc' = graph_map(intent.type)
    /\ UNCHANGED <<intent, tasks, returned, fnVars, pfVars>>

\* _collect_all_data as the node "collect_all_data".
collect_all_data ==
    /\ pc = "collect_all_data"
    /\ \E stock \in StockOutcomes, news \in FetchOutcomes,
          market \in FetchOutcomes :
        /\ state' = collect_all_data_state(state, stock, news, market)
        /\ errors' = collect_all_data_errors(errors, stock, news, market)
        /\ progress' = collect_all_data_progress(progress, stock, news, market)
        /\ trace' = collect_all_data_trace(trace, "collect_all_data",
                                            stock, news, market)
    /\ pc' = add_edge("collect_all_data")
    /\ UNCHANGED <<intent, initial_state, tasks, returned, fnVars, pfVars>>

\* _collect_comparison_data
collect_comparison_data ==
    /\ pc = "collect_comparison_data"
    /\ IF ~Truthy(state.ticker_2)
       THEN /\ errors' = Append(errors, "Second ticker required for comparison")
            /\ trace' = Entered(trace, "collect_comparison_data", {}, {}, {})
            /\ UNCHANGED <<state, progress>>
       ELSE \E s1 \in FetchOutcomes, s2 \in FetchOutcomes :
            /\ state' = [state EXCEPT
                    !.stock_data = IF s1 = "data" THEN "data" ELSE @,
                    !.stock_data_2 = IF s2 = "data" THEN "data" ELSE @]
            /\ progress' = progress
                    \o (IF s1 = "data" THEN <<"ticker data collected">> ELSE <<>>)
                    \o (IF s2 = "data" THEN <<"ticker_2 data collected">> ELSE <<>>)
            /\ errors' = errors
                    \o (IF s1 # "data" THEN <<"Error fetching ticker">> ELSE <<>>)
                    \o (IF s2 # "data" THEN <<"Error fetching ticker_2">> ELSE <<>>)
            /\ trace' = Entered(trace, "collect_comparison_data",
                    {"stock_data", "stock_data_2"}, {},
                    Failure("collect_comparison_data", "stock_data", s1)
                    \cup Failure("collect_comparison_data", "stock_data_2", s2))
    /\ pc' = add_edge("collect_comparison_data")
    /\ UNCHANGED <<intent, initial_state, tasks, returned, fnVars, pfVars>>

----------------------------------------------------------------------------
(* The producers, as far as the graph's nodes depend on them *)

\* RiskAgent.analyze: data.get('fundamental_analysis', {}) and
\* data.get('technical_analysis', {}) return None for a key that is present
\* with the value None; _calculate_position_sizing then calls
\* technical.get and _build_analysis_prompt calls fundamental.get, which
\* raise AttributeError on None.  An empty dict supports .get.
risk_agent_analyze(fundamental, technical) ==
    IF fundamental = None \/ technical = None
    THEN {"exc"}
    ELSE ProducerOutcomes

\* SynthesizerAgent.analyze: stock_data = data.get('stock_data', {}) is None
\* when the key holds None, and _build_analysis_prompt calls stock_data.get.
\* After the prompt is built, _run_llm_analysis catches what the LLM raises.
\* An analyze that builds its prompt without reading stock_data.
synthesizer_agent_analyze_any(stock_data) == ProducerOutcomes

synthesizer_agent_analyze(stock_data) ==
    IF stock_data = None
    THEN {"exc"}
    ELSE ProducerOutcomes

\* ComparisonSynthesizerAgent.compare(self, stock1_data, stock2_data):
\* the parameters the method declares.
compare_params == {"stock1_data", "stock2_data"}

\* _run_comparison_synthesis: the keyword arguments of its call of compare.
compare_kwargs ==
    {"ticker1", "ticker2", "stock_data_1", "stock_data_2",
     "fundamental_1", "fundamental_2", "technical_1", "technical_2"}

\* Python's binding of a call: every keyword must name a parameter and every
\* parameter without a default must be given; otherwise TypeError.
call_binds(params, kwargs) == kwargs \subseteq params /\ params \subseteq kwargs

\* The call in _run_comparison_synthesis: when the arguments do not bind,
\* the call expression raises TypeError and compare is not entered.
comparison_agent_compare ==
    IF call_binds(compare_params, compare_kwargs)
    THEN ProducerOutcomes
    ELSE {"TypeError"}

\* The keys of the dict a node hands to a producer's analyze in a run of
\* intent type t.  No node looks at the intent type when it builds the dict.
producer_input(t, producer) ==
    CASE producer \in {"fundamental", "technical",
                       "fundamental_2", "technical_2"}
            -> {"stock_data", "ticker"}
      [] producer = "market_intel"
            -> {"stock_data", "news_data", "market_data", "ticker"}
      [] producer = "risk"
            -> {"stock_data", "fundamental_analysis", "technical_analysis",
                "ticker"}
      [] producer = "synthesizer"
            -> {"stock_data", "fundamental", "technical", "market_intel",
                "risk"}

----------------------------------------------------------------------------
(* The analysis nodes *)

\* _run_single_agent: the slot and the texts of the branch the intent selects.
single_agent_slot(t) ==
    CASE t = TECHNICAL_ANALYSIS -> "technical_analysis"
      [] t = FUNDAMENTAL_ANALYSIS -> "fundamental_analysis"
      [] t = SENTIMENT_ANALYSIS -> "market_intel_analysis"

single_agent_name(t) ==
    CASE t = TECHNICAL_ANALYSIS -> "Technical"
      [] t = FUNDAMENTAL_ANALYSIS -> "Fundamental"
      [] t = SENTIMENT_ANALYSIS -> "Market Intel"

single_agent_failed(t) ==
    CASE t = TECHNICAL_ANALYSIS -> "Technical analysis failed"
      [] t = FUNDAMENTAL_ANALYSIS -> "Fundamental analysis failed"
      [] t = SENTIMENT_ANALYSIS -> "Market Intel analysis failed"

single_agent_producer(t) ==
    CASE t = TECHNICAL_ANALYSIS -> "technical"
      [] t = FUNDAMENTAL_ANALYSIS -> "fundamental"
      [] t = SENTIMENT_ANALYSIS -> "market_intel"

run_single_agent ==
    /\ pc = "run_agent"
    /\ IF ~Truthy(state.stock_data)
       THEN /\ errors' = Append(errors, "No stock data available")
            /\ trace' = Entered(trace, "run_agent", {}, {}, {})
            /\ UNCHANGED <<state, progress>>
       ELSE \E o \in ProducerOutcomes :
            /\ state' = IF o = "ok"
                        THEN [state EXCEPT
                                ![single_agent_slot(intent.type)] = ResultOf(o)]
                        ELSE state
            /\ progress' = IF o = "ok"
                           THEN Append(progress, single_agent_name(intent.type))
                           ELSE progress
            /\ errors' = CASE o = "empty" ->
                                Append(errors,
                                       single_agent_failed(intent.type))
                           [] o = "exc" -> Append(errors, "Analysis error")
                           [] OTHER -> errors
            /\ trace' = Entered(trace, "run_agent", {},
                    {single_agent_producer(intent.type)},
                    Failure("run_agent", single_agent_producer(intent.type), o))
    /\ pc' = add_edge("run_agent")
    /\ UNCHANGED <<intent, initial_state, tasks, returned, fnVars, pfVars>>

\* The coroutines handed to asyncio.gather by the two fan-out nodes, in the
\* order of the tasks list.
gather_tasks(node) ==
    IF node = "parallel_analysis"
    THEN <<"fundamental", "technical", "market_intel">>
    ELSE <<"fundamental", "technical", "fundamental_2", "technical_2">>

\* The slot the node assigns the i-th result to.
gather_slot(node) ==
    IF node = "parallel_analysis"
    THEN <<"fundamental_analysis", "technical_analysis",
           "market_intel_analysis">>
    ELSE <<"fundamental_analysis", "technical_analysis",
           "fundamental_analysis_2", "technical_analysis_2">>

\* agent_names of _run_parallel_analysis
agent_names == <<"Fundamental", "Technical", "Market Intel">>

\* f"{agent_names[i]} agent error: ..." without the exception's text
agent_error ==
    <<"Fundamental agent error", "Technical agent error",
      "Market Intel agent error">>

FanOutNodes == {"parallel_analysis", "parallel_comparison_analysis"}

\* _run_parallel_analysis / _run_parallel_comparison_analysis up to the
\* await of asyncio.gather: the guard on the data, then the tasks are created.
fan_out_guard(node) ==
    IF node = "parallel_analysis"
    THEN Truthy(state.stock_data)
    ELSE Truthy(state.stock_data) /\ Truthy(state.stock_data_2)

fan_out_start ==
    /\ pc \in FanOutNodes
    /\ tasks = <<>>
    /\ trace' = Entered(trace, pc, {}, {}, {})
    /\ IF fan_out_guard(pc)
       THEN /\ tasks' = [i \in 1..Len(gather_tasks(pc)) |-> "pending"]
            /\ UNCHANGED <<errors, pc>>
       ELSE /\ errors' = Append(errors,
                            IF pc = "parallel_analysis"
                            THEN "No stock data for analysis"
                            ELSE "Missing stock data for comparison")
            /\ pc' = add_edge(pc)
            /\ tasks' = tasks
    /\ UNCHANGED <<intent, state, initial_state, progress, returned,
                   fnVars, pfVars>>

\* The event loop starts the gathered tasks in the order they were created;
\* a task runs to its first suspension (or to its end).
task_start(i) ==
    /\ pc \in FanOutNodes
    /\ i \in DOMAIN tasks
    /\ tasks[i] = "pending"
    /\ \A j \in 1..(i - 1) : tasks[j] # "pending"
    /\ tasks' = [tasks EXCEPT ![i] = "running"]
    /\ trace' = [trace EXCEPT !.started = @ \cup {gather_tasks(pc)[i]}]
    /\ UNCHANGED <<intent, pc, state, initial_state, errors, progress,
                   returned, fnVars, pfVars>>

\* A started task ends, with a result or with an exception that gather
\* (return_exceptions=True) keeps as that task's result; the others go on.
task_finish(i) ==
    /\ pc \in FanOutNodes
    /\ i \in DOMAIN tasks
    /\ tasks[i] = "running"
    /\ \E o \in ProducerOutcomes :
        /\ tasks' = [tasks EXCEPT ![i] = o]
        /\ trace' = [trace EXCEPT
                !.finished = @ \cup {gather_tasks(pc)[i]},
                !.failed = @ \cup Failure(pc, gather_tasks(pc)[i], o)]
    /\ UNCHANGED <<intent, pc, state, initial_state, errors, progress,
                   returned, fnVars, pfVars>>

\* A barrier that releases as soon as one task is done.
gather_done_first ==
    tasks # <<>> /\ \E i \in DOMAIN tasks : tasks[i] \in ProducerOutcomes

\* asyncio.gather returns when every task has ended.
gather_done == tasks # <<>> /\ \A i \in DOMAIN tasks : tasks[i] \in ProducerOutcomes

\* A gather without return_exceptions: one exception and nothing is assigned.
gather_assign_abort(st, node, results) ==
    IF \E i \in DOMAIN results : results[i] = "exc"
    THEN st
    ELSE [s \in DOMAIN st |->
            IF \E i \in DOMAIN results : gather_slot(node)[i] = s
            THEN ResultOf(results[CHOOSE i \in DOMAIN results :
                                    gather_slot(node)[i] = s])
            ELSE st[s]]

\* The slots after the results of gather have been assigned.
gather_assign(st, node, results) ==
    [s \in DOMAIN st |->
        IF \E i \in DOMAIN results :
              gather_slot(node)[i] = s /\ results[i] # "exc"
        THEN ResultOf(results[CHOOSE i \in DOMAIN results :
                                gather_slot(node)[i] = s])
        ELSE st[s]]

RECURSIVE SeqConcat(_)
SeqConcat(ss) == IF ss = <<>> THEN <<>> ELSE Head(ss) \o SeqConcat(Tail(ss))

\* _run_parallel_analysis after gather: "for i, result in enumerate(results)".
run_parallel_analysis ==
    /\ pc = "parallel_analysis"
    /\ gather_done
    /\ state' = gather_assign(state, pc, tasks)
    /\ errors' = errors \o SeqConcat(
            [i \in DOMAIN tasks |->
                IF tasks[i] = "exc"
                THEN <<agent_error[i]>>
                ELSE <<>>])
    /\ progress' = progress \o SeqConcat(
            [i \in DOMAIN tasks |->
                IF tasks[i] # "exc" THEN <<agent_names[i]>> ELSE <<>>])
    /\ tasks' = <<>>
    /\ pc' = add_edge("parallel_analysis")
    /\ UNCHANGED <<intent, initial_state, trace, returned, fnVars, pfVars>>

\* _run_parallel_comparison_analysis after gather: four "if not
\* isinstance(results[k], Exception)" blocks and no else branch.
run_parallel_comparison_analysis ==
    /\ pc = "parallel_comparison_analysis"
    /\ gather_done
    /\ state' = gather_assign(state, pc, tasks)
    /\ errors' = errors
    /\ progress' = progress \o SeqConcat(
            [i \in DOMAIN tasks |->
                IF tasks[i] # "exc" THEN <<gather_tasks(pc)[i]>> ELSE <<>>])
    /\ tasks' = <<>>
    /\ pc' = add_edge("parallel_comparison_analysis")
    /\ UNCHANGED <<intent, initial_state, trace, returned, fnVars, pfVars>>

\* _run_risk_analysis
run_risk_analysis ==
    /\ pc = "risk_analysis_node"
    /\ IF ~Truthy(state.stock_data)
       THEN /\ errors' = Append(errors, "No stock data for risk analysis")
            /\ trace' = Entered(trace, "risk_analysis_node", {}, {}, {})
            /\ UNCHANGED <<state, progress>>
       ELSE \E o \in risk_agent_analyze(state.fundamental_analysis,
                                        state.technical_analysis) :
            /\ state' = IF o # "exc"
                        THEN [state EXCEPT !.risk_analysis = ResultOf(o)]
                        ELSE state
            /\ progress' = IF o # "exc" THEN Append(progress, "Risk")
                           ELSE progress
            /\ errors' = IF o = "exc"
                         THEN Append(errors, "Risk analysis error")
                         ELSE errors
            /\ trace' = Entered(trace, "risk_analysis_node", {}, {"risk"},
                                 Failure("risk_analysis_node", "risk", o))
    /\ pc' = add_edge("risk_analysis_node")
    /\ UNCHANGED <<intent, initial_state, tasks, returned, fnVars, pfVars>>

\* _run_synthesis
run_synthesis ==
    /\ pc = "synthesize"
    /\ \E o \in synthesizer_agent_analyze(state.stock_data) :
        /\ state' = IF o # "exc"
                    THEN [state EXCEPT
                            !.synthesized_recommendation = ResultOf(o)]
                    ELSE state
        /\ progress' = IF o # "exc"
                       THEN Append(progress, "Recommendation generated")
                       ELSE progress
        /\ errors' = IF o = "exc" THEN Append(errors, "Synthesis error")
                     ELSE errors
        /\ trace' = Entered(trace, "synthesize", {}, {"synthesizer"},
                             Failure("synthesize", "synthesizer", o))
    /\ pc' = add_edge("synthesize")
    /\ UNCHANGED <<intent, initial_state, tasks, returned, fnVars, pfVars>>

\* _run_comparison_synthesis
run_comparison_synthesis ==
    /\ pc = "synthesize_comparison"
    /\ \E o \in comparison_agent_compare :
        /\ state' = IF o \notin {"exc", "TypeError"}
                    THEN [state EXCEPT
                            !.synthesized_recommendation = ResultOf(o)]
                    ELSE state
        /\ progress' = IF o \notin {"exc", "TypeError"}
                       THEN Append(progress, "Comparison complete")
                       ELSE progress
        /\ errors' = IF o \in {"exc", "TypeError"}
                     THEN Append(errors, "Comparison error")
                     ELSE errors
        /\ trace' = IF o = "TypeError"
                    THEN Entered(trace, "synthesize_comparison", {}, {},
                                 {<<"synthesize_comparison", "call", o>>})
                    ELSE Entered(trace, "synthesize_comparison", {},
                                 {"comparison"},
                                 Failure("synthesize_comparison",
                                         "comparison", o))
    /\ pc' = add_edge("synthesize_comparison")
    /\ UNCHANGED <<intent, initial_state, tasks, returned, fnVars, pfVars>>

\* run after ainvoke: the progress callback, then "return final_state"; an
\* exception of the callback is caught by run's except, which appends to
\* initial_state["errors"] and returns initial_state.
CallbackOutcomes == {"absent", "ok", "exc"}

\* run_finish with an except branch that replaces the errors list.
run_finish_replacing ==
    /\ pc = END
    /\ \E cb \in CallbackOutcomes :
        IF cb = "exc" /\ progress # <<>>
        THEN /\ errors' = <<"Execution error">>
             /\ returned' = "initial_state"
        ELSE /\ errors' = errors
             /\ returned' = "final_state"
    /\ pc' = "returned"
    /\ UNCHANGED <<intent, state, initial_state, progress, tasks, trace,
                   fnVars, pfVars>>

run_finish ==
    /\ pc = END
    /\ \E cb \in CallbackOutcomes :
        IF cb = "exc" /\ progress # <<>>
        THEN /\ errors' = Append(errors, "Execution error")
             /\ returned' = "initial_state"
        ELSE /\ errors' = errors
             /\ returned' = "final_state"
    /\ pc' = "returned"
    /\ UNCHANGED <<intent, state, initial_state, progress, tasks, trace,
                   fnVars, pfVars>>

PipeNext ==
    \/ handle_analysis
    \/ run_start
    \/ pre_collect
    \/ collect_price_data
    \/ collect_stock_data
    \/ collect_all_data
    \/ collect_comparison_data
    \/ run_single_agent
    \/ fan_out_start
    \/ \E i \in 1..4 : task_start(i)
    \/ \E i \in 1..4 : task_finish(i)
    \/ run_parallel_analysis
    \/ run_parallel_comparison_analysis
    \/ run_risk_analysis
    \/ run_synthesis
    \/ run_comparison_synthesis
    \/ run_finish

\* The dict run returned.
ReturnedState == IF returned = "final_state" THEN state ELSE initial_state

\* The variables of the other components while a request is served.
FnIdle == args = None /\ ret = None
PfIdle == holdings = <<>> /\ idx = 0 /\ stock_analyses = <<>>

Init == PipeInit /\ FnIdle /\ PfIdle

Next == PipeNext

Spec == Init /\ [][Next]_vars

----------------------------------------------------------------------------
(* Properties of the request pipeline (specification Spec) *)

IsPrefix(a, b) == Len(a) <= Len(b) /\ SubSeq(b, 1, Len(a)) = a

StandardStages ==
    <<"collect_all_data", "parallel_analysis", "risk_analysis_node",
      "synthesize">>

FanOutProducers == {"fundamental", "technical", "market_intel"}

\* C1: in a FULL_ANALYSIS run the stages are entered in the order
\* collect_all_data, parallel_analysis, risk_analysis_node, synthesize; the
\* risk producer is started only when no gathered task is left and all three
\* fan-out producers have finished; the synthesizer is started only after
\* the risk stage; a run that returns the final state has run all four.
C1_StageOrder ==
    intent.type = FULL_ANALYSIS =>
        /\ IsPrefix(trace.stages, StandardStages)
        /\ trace.started \subseteq FanOutProducers \cup {"risk", "synthesizer"}
        /\ "risk" \in trace.started =>
                /\ FanOutProducers \subseteq trace.finished
                /\ tasks = <<>>
                /\ Len(trace.stages) >= 3
        /\ "synthesizer" \in trace.started =>
                /\ Len(trace.stages) = 4
                /\ trace.started \subseteq trace.finished
        /\ returned = "final_state" => trace.stages = StandardStages

C1_Witness ==
    /\ intent.type = FULL_ANALYSIS
    /\ returned = "final_state"
    /\ "risk" \in trace.finished
    /\ state.synthesized_recommendation = "result"
    /\ state.risk_analysis = "result"

ExcIn(results) == {i \in DOMAIN results : results[i] = "exc"}

\* C2: when the parallel_analysis stage ends with exactly one of its three
\* producers having raised, the other two slots hold their producers'
\* results, the failing producer's slot is empty and the stage has appended
\* exactly one error entry, the one naming the failing producer; a task that
\* is still running when a sibling has raised ends with its own outcome.
C2_FanOutIsolation ==
    [][/\ (/\ pc = "parallel_analysis"
           /\ pc' = "risk_analysis_node"
           /\ tasks # <<>>
           /\ Cardinality(ExcIn(tasks)) = 1)
          => \A i \in DOMAIN tasks :
                IF tasks[i] = "exc"
                THEN /\ state'[gather_slot(pc)[i]] = None
                     /\ errors' = Append(errors, agent_error[i])
                ELSE /\ tasks[i] \in ProducerOutcomes
                     /\ state'[gather_slot(pc)[i]] = ResultOf(tasks[i])
                     /\ gather_tasks(pc)[i] \in trace.finished
       /\ (/\ pc = "parallel_analysis"
           /\ tasks # <<>> /\ tasks' # <<>>
           /\ ExcIn(tasks) # {})
          => \A j \in DOMAIN tasks :
                tasks'[j] # tasks[j] =>
                    /\ tasks[j] \in {"pending", "running"}
                    /\ tasks'[j] \in {"running"} \cup ProducerOutcomes
      ]_vars

C2_Witness ==
    /\ pc = "risk_analysis_node"
    /\ state.fundamental_analysis = "result"
    /\ state.technical_analysis = None
    /\ state.market_intel_analysis = "result"
    /\ errors # <<>>
    /\ errors[Len(errors)] = "Technical agent error"
    /\ {f \in trace.failed : f[3] = "exc"}
            = {<<"parallel_analysis", "technical", "exc">>}

\* The error entries a node appends.
ErrorsOf(node) ==
    CASE node = "collect_price" ->
            {"Could not fetch price", "Price fetch error"}
      [] node = "collect_data" ->
            {"Could not fetch data", "Data collection error"}
      [] node \in {"pre_collect", "collect_all_data"} ->
            {"Stock data error", "Warning: No historical data",
             "News data error", "Market data error"}
      [] node = "collect_comparison_data" ->
            {"Second ticker required for comparison",
             "Error fetching ticker", "Error fetching ticker_2"}
      [] node = "run_agent" ->
            {"No stock data available", "Technical analysis failed",
             "Fundamental analysis failed", "Market Intel analysis failed",
             "Analysis error"}
      [] node = "parallel_analysis" ->
            {"No stock data for analysis", "Fundamental agent error",
             "Technical agent error", "Market Intel agent error"}
      [] node = "parallel_comparison_analysis" ->
            {"Missing stock data for comparison"}
      [] node = "risk_analysis_node" ->
            {"No stock data for risk analysis", "Risk analysis error"}
      [] node = "synthesize" -> {"Synthesis error"}
      [] node = "synthesize_comparison" -> {"Comparison error"}
      [] OTHER -> {}

\* The slot a producer's result goes to.
ProducerSlot(node, callee) ==
    CASE callee = "fundamental" -> "fundamental_analysis"
      [] callee = "technical" -> "technical_analysis"
      [] callee = "market_intel" -> "market_intel_analysis"
      [] callee = "fundamental_2" -> "fundamental_analysis_2"
      [] callee = "technical_2" -> "technical_analysis_2"
      [] callee = "risk" -> "risk_analysis"
      [] callee \in {"synthesizer", "comparison", "call"}
            -> "synthesized_recommendation"
      [] OTHER -> None

Raised == {f \in trace.failed : f[3] \in {"exc", "TypeError"}}

\* C3 (as claimed): once a stage in which an exception was raised has ended,
\* errors holds an entry appended by that stage and the slot of the producer
\* that raised is empty.
C3_StageCatches ==
    \A f \in Raised :
        pc # f[1] =>
            /\ \E i \in DOMAIN errors : errors[i] \in ErrorsOf(f[1])
            /\ ProducerSlot(f[1], f[2]) # None
                    => state[ProducerSlot(f[1], f[2])] = None

\* The slots a topology is expected to fill.
ExpectedSlots(t) ==
    CASE t = PRICE_CHECK -> {"stock_data"}
      [] t \in {TECHNICAL_ANALYSIS, FUNDAMENTAL_ANALYSIS, SENTIMENT_ANALYSIS}
            -> {"stock_data", single_agent_slot(t)}
      [] t = COMPARISON ->
            {"stock_data", "stock_data_2", "fundamental_analysis",
             "fundamental_analysis_2", "technical_analysis",
             "technical_analysis_2", "synthesized_recommendation"}
      [] OTHER ->
            {"stock_data", "fundamental_analysis", "technical_analysis",
             "market_intel_analysis", "risk_analysis",
             "synthesized_recommendation"}

\* Every data fetch returned data and every producer returned a result.
AllSucceeded == {f \in trace.failed : f[2] # "call"} = {}

\* C4 (as claimed): a run of any topology in which every fetch returned
\* data and every producer returned a result returns a state with no error
\* entry and with every expected slot populated.
C4_AllSucceed ==
    (returned = "final_state" /\ AllSucceeded) =>
        /\ errors = <<>>
        /\ \A s \in ExpectedSlots(intent.type) : ReturnedState[s] # None

\* The same for the topologies other than COMPARISON.
C4_ExceptComparison == intent.type # COMPARISON => C4_AllSucceed

Accepted == pc \notin {"received", "rejected"}

\* C9 (as claimed): a COMPARISON intent is accepted only if it carries
\* exactly two distinct tickers.
C9_ExactlyTwoDistinct ==
    (intent.type = COMPARISON /\ Accepted) =>
        /\ Len(intent.tickers) = 2
        /\ intent.tickers[1] # intent.tickers[2]

\* C9 (amended): a COMPARISON intent is accepted if and only if it carries
\* at least two tickers, whether or not they are distinct.
C9_AtLeastTwo ==
    (intent.type = COMPARISON /\ pc # "received") =>
        (Accepted <=> Len(intent.tickers) >= 2)

C9_Witness ==
    /\ intent.type = COMPARISON
    /\ pc = "run"
    /\ Len(intent.tickers) = 3
    /\ intent.tickers[1] = intent.tickers[2]

RoutableTypes == IntentType \ {HELP, UNKNOWN}

\* C10: an intent of type UNKNOWN is rejected whatever its tickers, and an
\* intent of a routable type with an empty ticker list is rejected.
C10_RejectsUnknownAndEmpty ==
    (/\ pc # "received"
     /\ \/ intent.type = UNKNOWN
        \/ intent.type \in RoutableTypes /\ intent.tickers = <<>>)
    => (pc = "rejected" /\ returned = "rejected" /\ trace = NoTrace)

C10_Witness ==
    /\ pc = "rejected"
    /\ intent.type = UNKNOWN
    /\ Len(intent.tickers) = 2

C10_WitnessEmpty ==
    /\ pc = "rejected"
    /\ intent.type = DEEP_DIVE
    /\ intent.tickers = <<>>

\* C11: a COMPARISON intent with only one ticker is rejected before any
\* stage runs: from its receipt to the return of the rejection no stage is
\* entered, no data source is fetched and no producer is called, and the
\* request never gets past the rejection.
C11_OneTickerNoCalls ==
    (intent.type = COMPARISON /\ Len(intent.tickers) = 1) =>
        /\ pc \in {"received", "rejected"}
        /\ trace.stages = <<>>
        /\ trace.fetched = {}
        /\ trace.started = {}
        /\ pc = "rejected" => returned = "rejected"

C11_Witness ==
    /\ intent.type = COMPARISON
    /\ Len(intent.tickers) = 1
    /\ pc = "rejected"
    /\ returned = "rejected"
    /\ trace = NoTrace

\* run ended in its except branch: an exception escaped from inside the
\* try (here the progress callback's) and the execution error was appended.
ExecutionFailed ==
    /\ pc = "returned"
    /\ returned = "initial_state"
    /\ errors # <<>>
    /\ errors[Len(errors)] = "Execution error"

\* C15 (as claimed): when an exception escapes inside run, run returns, for
\* every intent type, a state whose errors hold the execution error and in
\* which every data slot and every analysis slot is empty.
C15_OnlyErrorsPopulated ==
    ExecutionFailed => \A s \in SlotNames : ReturnedState[s] = None

\* The same for the intent types other than SENTIMENT_ANALYSIS, and for
\* the analysis slots of every type.
C15_ExceptSentimentData ==
    ExecutionFailed =>
        \A s \in SlotNames :
            (intent.type # SENTIMENT_ANALYSIS
             \/ s \notin {"stock_data", "news_data", "market_data"})
            => ReturnedState[s] = None

\* C16: during a run the errors list is append-only: every step leaves the
\* list of the state before it as a prefix of the list after it, so the
\* list run returns holds every entry any stage appended.
C16_ErrorsAppendOnly == [][IsPrefix(errors, errors')]_vars

\* A returned run whose list holds entries of three different stages
\* followed by the execution error.
C16_Witness ==
    /\ pc = "returned"
    /\ Len(errors) = 4
    /\ errors[1] = "Warning: No historical data"
    /\ errors[2] = "Technical agent error"
    /\ errors[3] = "Risk analysis error"
    /\ errors[4] = "Execution error"

\* The intent types served by the full analysis graph of a STANDARD run.
StandardTypes == {FULL_ANALYSIS}

\* The risk stage of the run has ended.
RiskStageDone ==
    /\ Len(trace.stages) >= 3
    /\ trace.stages[3] = "risk_analysis_node"
    /\ pc # "risk_analysis_node"

\* C17 (as claimed): in a STANDARD run with stock data available in which
\* the fundamental or the technical producer failed and left its slot
\* empty, the risk stage completes its producer call and populates
\* risk_analysis, adding no error of its own.
C17_RiskToleratesEmptySlot ==
    (/\ intent.type \in StandardTypes
     /\ RiskStageDone
     /\ Truthy(state.stock_data)
     /\ state.fundamental_analysis = None \/ state.technical_analysis = None)
    => /\ state.risk_analysis # None
       /\ \A i \in DOMAIN errors : errors[i] # "Risk analysis error"

\* What the code does in that case: the risk producer is entered, raises,
\* and the stage records its own error and leaves risk_analysis empty.
C17_RiskFailsOnEmptySlot ==
    (/\ intent.type \in StandardTypes
     /\ RiskStageDone
     /\ Truthy(state.stock_data)
     /\ state.fundamental_analysis = None \/ state.technical_analysis = None)
    => /\ state.risk_analysis = None
       /\ \E i \in DOMAIN errors : errors[i] = "Risk analysis error"
       /\ <<"risk_analysis_node", "risk", "exc">> \in trace.failed

AnalysisSlots == SlotNames \ {"stock_data", "stock_data_2", "news_data", "market_data"}

\* Data collection of the run yielded no stock data: the fetch returned
\* nothing or raised.
NoStockData ==
    \E o \in {"none", "exc"} :
        <<"collect_all_data", "stock_data", o>> \in trace.failed

\* The producers whose analyze got as far as its external generation
\* call: every started producer except a synthesizer that was given no
\* stock data, which raises while it builds its prompt.
GenerationCalls ==
    IF <<"synthesize", "synthesizer", "exc">> \in trace.failed
       /\ state.stock_data = None
    THEN trace.started \ {"synthesizer"}
    ELSE trace.started

\* C18: in a STANDARD run whose data collection yields no stock data, every
\* stage still runs, run returns with a non-empty errors list, no
\* producer's external generation call is made and every analysis slot,
\* synthesized_recommendation included, stays empty.
C18_NoStockData ==
    (intent.type \in StandardTypes /\ NoStockData) =>
        /\ GenerationCalls = {}
        /\ \A s \in AnalysisSlots : state[s] = None
        /\ pc \in {END, "returned"} =>
                /\ trace.stages = StandardStages
                /\ Len(errors) >= 3
        /\ pc = "returned" =>
                /\ returned \in {"final_state", "initial_state"}
                /\ \A s \in AnalysisSlots : ReturnedState[s] = None

\* A returned run in which the stock fetch returned nothing while news and
\* market data were collected: the three later stages each left an error.
C18_Witness ==
    /\ intent.type = FULL_ANALYSIS
    /\ pc = "returned"
    /\ returned = "final_state"
    /\ <<"collect_all_data", "stock_data", "none">> \in trace.failed
    /\ state.news_data = "data"
    /\ trace.stages = StandardStages
    /\ errors = <<"No stock data for analysis",
                  "No stock data for risk analysis", "Synthesis error">>
    /\ state.synthesized_recommendation = None

----------------------------------------------------------------------------
(* agents/synthesizer_agent.py: SynthesizerAgent._calculate_weighted_scores *)

(* A text is a sequence of one-character strings. *)

LowerCase ==
    <<"a", "b", "c", "d", "e", "f", "g", "h", "i", "j", "k", "l", "m",
      "n", "o", "p", "q", "r", "s", "t", "u", "v", "w", "x", "y", "z">>

UpperCase ==
    <<"A", "B", "C", "D", "E", "F", "G", "H", "I", "J", "K", "L", "M",
      "N", "O", "P", "Q", "R", "S", "T", "U", "V", "W", "X", "Y", "Z">>

\* The characters of the texts of the model.
Chars ==
    {LowerCase[n] : n \in DOMAIN LowerCase}
    \cup {UpperCase[n] : n \in DOMAIN UpperCase}
    \cup {"_", "-", " "}

\* The character maps of str.upper and str.lower.
ToUpper ==
    [c \in Chars |->
        IF \E n \in DOMAIN LowerCase : LowerCase[n] = c
        THEN UpperCase[CHOOSE n \in DOMAIN LowerCase : LowerCase[n] = c]
        ELSE c]

ToLower ==
    [c \in Chars |->
        IF \E n \in DOMAIN UpperCase : UpperCase[n] = c
        THEN LowerCase[CHOOSE n \in DOMAIN UpperCase : UpperCase[n] = c]
        ELSE c]

\* str.upper and str.lower
upper(text) == [k \in DOMAIN text |-> ToUpper[text[k]]]

lower(text) == [k \in DOMAIN text |-> ToLower[text[k]]]

\* Python's "sub in text" for strings
contains(text, sub) ==
    \E k \in 0..(Len(text) - Len(sub)) : SubSeq(text, k + 1, k + Len(sub)) = sub

\* dict.get(key, default) on a record of optional values
get(d, key, default) == IF d[key] = Missing THEN default ELSE d[key][1]

\* The vocabularies of _normalize_signal
bullish ==
    {<<"S", "T", "R", "O", "N", "G", "_", "B", "U", "Y">>, <<"B", "U", "Y">>, <<"B", "U", "L", "L", "I", "S", "H">>, <<"P", "O", "S", "I", "T", "I", "V", "E">>, <<"U", "N", "D", "E", "R", "V", "A", "L", "U", "E", "D">>}

bearish ==
    {<<"S", "T", "R", "O", "N", "G", "_", "S", "E", "L", "L">>, <<"S", "E", "L", "L">>, <<"B", "E", "A", "R", "I", "S", "H">>, <<"N", "E", "G", "A", "T", "I", "V", "E">>, <<"O", "V", "E", "R", "V", "A", "L", "U", "E", "D">>}

\* _normalize_signal
normalize_signal(signal) ==
    IF \E w \in bullish : contains(upper(signal), w) THEN "BULLISH"
    ELSE IF \E w \in bearish : contains(upper(signal), w) THEN "BEARISH"
    ELSE "NEUTRAL"

\* list.count
count(list, x) == Cardinality({k \in DOMAIN list : list[k] = x})

\* _detect_conflicts: the conflicts list; its one possible entry carries the
\* two counts.
detect_conflicts(signals) ==
    IF count(signals, "BULLISH") > 0 /\ count(signals, "BEARISH") > 0
    THEN <<[mixed |-> <<count(signals, "BULLISH"),
                        count(signals, "BEARISH")>>]>>
    ELSE <<>>

\* The weights, in percent.
\* The selection with the tests for 'short' and 'long' in the other order.
weights_for_short_first(time_horizon) ==
    IF contains(lower(time_horizon), <<"s", "h", "o", "r", "t">>)
    THEN [fundamental |-> 15, technical |-> 50, market_intel |-> 25, risk |-> 10]
    ELSE IF contains(lower(time_horizon), <<"l", "o", "n", "g">>)
    THEN [fundamental |-> 50, technical |-> 20, market_intel |-> 20, risk |-> 10]
    ELSE [fundamental |-> 30, technical |-> 40, market_intel |-> 20, risk |-> 10]

weights_for(time_horizon) ==
    IF contains(lower(time_horizon), <<"l", "o", "n", "g">>)
    THEN [fundamental |-> 50, technical |-> 20, market_intel |-> 20, risk |-> 10]
    ELSE IF contains(lower(time_horizon), <<"s", "h", "o", "r", "t">>)
    THEN [fundamental |-> 15, technical |-> 50, market_intel |-> 25, risk |-> 10]
    ELSE [fundamental |-> 30, technical |-> 40, market_intel |-> 20, risk |-> 10]

\* "if not conflicts: +10 / elif len(conflicts) >= 2: -20", starting from 0
confidence_adjustment(conflicts) ==
    IF conflicts = <<>> THEN 10
    ELSE IF Len(conflicts) >= 2 THEN 0 - 20
    ELSE 0

\* _calculate_weighted_scores with the risk score weighted as it is, not
\* inverted.
calculate_weighted_scores_risk_as_is(fundamental, technical, market_intel, risk, user_context) ==
    LET time_horizon == get(user_context, "time_horizon", <<"m", "e", "d", "i", "u", "m">>)
        weights == weights_for(time_horizon)
        fund_score == get(fundamental, "score", 50)
        tech_score == get(technical, "score", 50)
        intel_score == get(market_intel, "score", 50)
        risk_score == get(risk, "risk_score", 50)
        weighted == fund_score * weights.fundamental
                    + tech_score * weights.technical
                    + intel_score * weights.market_intel
                    + risk_score * weights.risk
        signals ==
            <<normalize_signal(get(fundamental, "rating", <<"H", "O", "L", "D">>)),
              normalize_signal(get(technical, "signal", <<"N", "E", "U", "T", "R", "A", "L">>)),
              normalize_signal(get(market_intel, "overall_sentiment",
                                   <<"N", "E", "U", "T", "R", "A", "L">>))>>
        conflicts == detect_conflicts(signals)
    IN  [fundamental_score |-> fund_score,
         technical_score |-> tech_score,
         market_intel_score |-> intel_score,
         risk_score |-> get(risk, "risk_score", 50),
         weighted_average |-> weighted,
         confidence_adjustment |-> confidence_adjustment(conflicts),
         final_score |-> weighted + 100 * confidence_adjustment(conflicts),
         weights_used |-> weights,
         conflicts |-> conflicts]

\* _calculate_weighted_scores with the final score clamped to 0..100.
calculate_weighted_scores_clamped(fundamental, technical, market_intel, risk, user_context) ==
    LET time_horizon == get(user_context, "time_horizon", <<"m", "e", "d", "i", "u", "m">>)
        weights == weights_for(time_horizon)
        fund_score == get(fundamental, "score", 50)
        tech_score == get(technical, "score", 50)
        intel_score == get(market_intel, "score", 50)
        risk_score == 100 - get(risk, "risk_score", 50)
        weighted == fund_score * weights.fundamental
                    + tech_score * weights.technical
                    + intel_score * weights.market_intel
                    + risk_score * weights.risk
        signals ==
            <<normalize_signal(get(fundamental, "rating", <<"H", "O", "L", "D">>)),
              normalize_signal(get(technical, "signal", <<"N", "E", "U", "T", "R", "A", "L">>)),
              normalize_signal(get(market_intel, "overall_sentiment",
                                   <<"N", "E", "U", "T", "R", "A", "L">>))>>
        conflicts == detect_conflicts(signals)
    IN  [fundamental_score |-> fund_score,
         technical_score |-> tech_score,
         market_intel_score |-> intel_score,
         risk_score |-> get(risk, "risk_score", 50),
         weighted_average |-> weighted,
         confidence_adjustment |-> confidence_adjustment(conflicts),
         final_score |->
            LET total == weighted + 100 * confidence_adjustment(conflicts)
            IN  IF total > 10000 THEN 10000 ELSE IF total < 0 THEN 0 ELSE total,
         weights_used |-> weights,
         conflicts |-> conflicts]

\* _calculate_weighted_scores.  The weights are in percent, so that
\* weighted_average and final_score are in hundredths of a score point (the
\* code rounds both to two decimals).
calculate_weighted_scores(fundamental, technical, market_intel, risk, user_context) ==
    LET time_horizon == get(user_context, "time_horizon", <<"m", "e", "d", "i", "u", "m">>)
        weights == weights_for(time_horizon)
        fund_score == get(fundamental, "score", 50)
        tech_score == get(technical, "score", 50)
        intel_score == get(market_intel, "score", 50)
        risk_score == 100 - get(risk, "risk_score", 50)
        weighted == fund_score * weights.fundamental
                    + tech_score * weights.technical
                    + intel_score * weights.market_intel
                    + risk_score * weights.risk
        signals ==
            <<normalize_signal(get(fundamental, "rating", <<"H", "O", "L", "D">>)),
              normalize_signal(get(technical, "signal", <<"N", "E", "U", "T", "R", "A", "L">>)),
              normalize_signal(get(market_intel, "overall_sentiment",
                                   <<"N", "E", "U", "T", "R", "A", "L">>))>>
        conflicts == detect_conflicts(signals)
    IN  [fundamental_score |-> fund_score,
         technical_score |-> tech_score,
         market_intel_score |-> intel_score,
         risk_score |-> get(risk, "risk_score", 50),
         weighted_average |-> weighted,
         confidence_adjustment |-> confidence_adjustment(conflicts),
         final_score |-> weighted + 100 * confidence_adjustment(conflicts),
         weights_used |-> weights,
         conflicts |-> conflicts]

\* The inputs the function is checked on.
Scores == {Missing, Some(0), Some(100)}

Ratings == {Missing, Some(<<"B", "U", "Y">>), Some(<<"H", "O", "L", "D">>),
            Some(<<"S", "T", "R", "O", "N", "G", "_", "S", "E", "L", "L">>)}

Signals == {Missing, Some(<<"B", "U", "L", "L", "I", "S", "H">>),
            Some(<<"B", "e", "a", "r", "i", "s", "h">>),
            Some(<<"N", "E", "U", "T", "R", "A", "L">>)}

Sentiments ==
    {Some(<<"P", "O", "S", "I", "T", "I", "V", "E">>),
     Some(<<"N", "E", "G", "A", "T", "I", "V", "E">>),
     Some(<<"N", "E", "U", "T", "R", "A", "L">>),
     Some(<<"S", "l", "i", "g", "h", "t", "l", "y", " ", "n", "e", "g", "a", "t", "i", "v", "e">>)}

Horizons ==
    {Missing, Some(<<"L", "o", "n", "g", "-", "t", "e", "r", "m">>),
     Some(<<"s", "h", "o", "r", "t">>), Some(<<"s", "w", "i", "n", "g">>),
     Some(<<"S", "h", "o", "r", "t", " ", "t", "o", " ", "L", "O", "N", "G">>)}

SynthArgs ==
    [fundamental : [score : Scores, rating : Ratings],
     technical : [score : Scores, signal : Signals],
     market_intel : [score : Scores, overall_sentiment : Sentiments],
     risk : [risk_score : Scores],
     user_context : [time_horizon : Horizons]]

\* The variables of the request pipeline while a function is checked.
PipeIdle ==
    /\ intent = None
    /\ state = NoState
    /\ initial_state = NoState
    /\ errors = <<>>
    /\ progress = <<>>
    /\ tasks = <<>>
    /\ trace = NoTrace
    /\ returned = "none"

SynthInit ==
    /\ args \in SynthArgs
    /\ ret = None
    /\ pc = "call"
    /\ PipeIdle
    /\ PfIdle

calculate ==
    /\ pc = "call"
    /\ ret' = calculate_weighted_scores(args.fundamental, args.technical,
                    args.market_intel, args.risk, args.user_context)
    /\ pc' = "done"
    /\ UNCHANGED <<args, intent, state, initial_state, errors, progress,
                   tasks, trace, returned, pfVars>>

SynthNext == calculate

SpecSynth == SynthInit /\ [][SynthNext]_vars

\* The normalized signals of the checked call.
NormalizedSignals ==
    <<normalize_signal(get(args.fundamental, "rating", <<"H", "O", "L", "D">>)),
      normalize_signal(get(args.technical, "signal", <<"N", "E", "U", "T", "R", "A", "L">>)),
      normalize_signal(get(args.market_intel, "overall_sentiment",
                           <<"N", "E", "U", "T", "R", "A", "L">>))>>

\* C5 (as claimed): confidence_adjustment is -20 when a BULLISH and a
\* BEARISH normalized signal co-occur and +10 otherwise.
C5_ConflictAdjustment ==
    pc = "done" =>
        LET sig == NormalizedSignals
        IN  ret.confidence_adjustment =
                IF /\ \E k \in 1..3 : sig[k] = "BULLISH"
                   /\ \E k \in 1..3 : sig[k] = "BEARISH"
                THEN 0 - 20
                ELSE 10

\* The part of C5 the code satisfies: +10 exactly when no BULLISH signal
\* meets a BEARISH one.
C5_AlignedPlusTen ==
    pc = "done" =>
        LET sig == NormalizedSignals
        IN  ret.confidence_adjustment = 10 <=>
                ~(/\ \E k \in 1..3 : sig[k] = "BULLISH"
                  /\ \E k \in 1..3 : sig[k] = "BEARISH")

\* The time horizon of the checked call, lower-cased ('medium' when the
\* user context has none).
HorizonLower ==
    lower(IF args.user_context.time_horizon = Missing
          THEN <<"m", "e", "d", "i", "u", "m">>
          ELSE args.user_context.time_horizon[1])

\* The three weight sets in percent, as <<fundamental, technical,
\* market_intel, risk>>.
LongTermSet == <<50, 20, 20, 10>>
ShortTermSet == <<15, 50, 25, 10>>
DefaultSet == <<30, 40, 20, 10>>

\* The weights a call returned, in the same form.
WeightsUsed ==
    <<ret.weights_used.fundamental, ret.weights_used.technical,
      ret.weights_used.market_intel, ret.weights_used.risk>>

\* C12: for every time-horizon string the weights are the long-term set if
\* the lower-cased string contains 'long', otherwise the short-term set if
\* it contains 'short', otherwise the default set; the four selected
\* weights sum to 1.0 (100 percent).
C12_WeightSelection ==
    pc = "done" =>
        /\ WeightsUsed =
              IF contains(HorizonLower, <<"l", "o", "n", "g">>)
              THEN LongTermSet
              ELSE IF contains(HorizonLower, <<"s", "h", "o", "r", "t">>)
              THEN ShortTermSet
              ELSE DefaultSet
        /\ WeightsUsed[1] + WeightsUsed[2] + WeightsUsed[3] + WeightsUsed[4] = 100

\* A call whose horizon, in mixed case, contains both 'short' and 'long'.
C12_Witness ==
    /\ pc = "done"
    /\ contains(HorizonLower, <<"l", "o", "n", "g">>)
    /\ contains(HorizonLower, <<"s", "h", "o", "r", "t">>)
    /\ args.user_context.time_horizon[1] # HorizonLower
    /\ WeightsUsed = LongTermSet

\* A component's score in the checked call, the neutral 50 when its
\* analysis has no score.
Component(analysis, key) ==
    IF analysis[key] = Missing THEN 50 ELSE analysis[key][1]

\* C13: weighted_average is fundamental*w_f + technical*w_t + sentiment*w_s
\* + (100 - risk_score)*w_r for the selected weights, a missing score
\* counting as 50 (a missing risk_score contributes 100 - 50 = 50); the
\* call returns a result whatever is missing.  Weights in percent, the
\* average in hundredths.
C13_WeightedAverage ==
    pc = "done" =>
        /\ ret.weighted_average =
              Component(args.fundamental, "score") * WeightsUsed[1]
              + Component(args.technical, "score") * WeightsUsed[2]
              + Component(args.market_intel, "score") * WeightsUsed[3]
              + (100 - Component(args.risk, "risk_score")) * WeightsUsed[4]
        /\ ret.risk_score = Component(args.risk, "risk_score")

\* A call with a risky stock (risk_score 100), the technical score missing
\* and the other scores at 100: the long-term average is 50 + 10 + 20 + 0.
C13_Witness ==
    /\ pc = "done"
    /\ args.risk.risk_score = Some(100)
    /\ args.technical.score = Missing
    /\ args.fundamental.score = Some(100)
    /\ args.market_intel.score = Some(100)
    /\ WeightsUsed = LongTermSet
    /\ ret.weighted_average = 8000

\* A call in which every analysis is an empty dict.
C13_WitnessAllMissing ==
    /\ pc = "done"
    /\ args.fundamental = [score |-> Missing, rating |-> Missing]
    /\ args.technical = [score |-> Missing, signal |-> Missing]
    /\ args.market_intel.score = Missing
    /\ args.risk.risk_score = Missing
    /\ ret.weighted_average = 5000

\* C14: final_score is weighted_average + confidence_adjustment, not
\* clamped to 0..100 (both scores in hundredths).
C14_FinalScoreUnclamped ==
    pc = "done" =>
        ret.final_score = ret.weighted_average + 100 * ret.confidence_adjustment

\* Component scores within 0..100, all favourable and the signals aligned:
\* the final score is 110.
C14_Witness ==
    /\ pc = "done"
    /\ \A a \in {args.fundamental, args.technical, args.market_intel} :
            a.score = Some(100)
    /\ args.risk.risk_score = Some(0)
    /\ ret.confidence_adjustment = 10
    /\ ret.final_score = 11000
    /\ ret.final_score > 10000

----------------------------------------------------------------------------
(* orchestrator/portfolio_workflow.py: _determine_action                   *)
(*                                                                         *)
(* Prices and pnl_percent are floats in the code; the model takes whole    *)
(* numbers, and the input sets below hold every threshold of the rules     *)
(* together with its neighbours.  stop_loss and target_price are nullable  *)
(* columns, fundamental and technical are Optional[Dict].                  *)

HOLD == "HOLD"
ADD_MORE == "ADD_MORE"
BOOK_PARTIAL_25 == "BOOK_PARTIAL_25"
BOOK_PARTIAL_50 == "BOOK_PARTIAL_50"
BOOK_ALL == "BOOK_ALL"
STOP_LOSS_HIT == "STOP_LOSS_HIT"
REBALANCE == "REBALANCE"
TRAILING_STOP == "TRAILING_STOP"

PortfolioAction ==
    {HOLD, ADD_MORE, BOOK_PARTIAL_25, BOOK_PARTIAL_50, BOOK_ALL,
     STOP_LOSS_HIT, REBALANCE, TRAILING_STOP}

Priorities == {"URGENT", "HIGH", "MEDIUM", "LOW"}

\* A test for "is not None" in place of the truth value.
is_not_none(o) == o # Missing

\* Python's truth value of an optional number: None and 0 are false.
nonzero(o) == o # Missing /\ o[1] # 0

\* The score of an analysis with 0 in place of the neutral 50.
score_of_zero(analysis) ==
    IF analysis = Missing THEN 0 ELSE get(analysis[1], "score", 0)

\* fundamental.get("score", 50) if fundamental else 50
score_of(analysis) ==
    IF analysis = Missing THEN 50 ELSE get(analysis[1], "score", 50)

\* stop_loss_distance <= 2, where stop_loss_distance is
\* ((current_price - stop_loss) / stop_loss) * 100 and stop_loss > 0.
near_stop_loss_strict(stop_loss, current_price) ==
    (current_price - stop_loss) * 100 < 2 * stop_loss
near_stop_loss(stop_loss, current_price) ==
    (current_price - stop_loss) * 100 <= 2 * stop_loss

\* The guard of the large-loss rule.
large_loss_strict(pnl_percent) == pnl_percent < 0 - 15
large_loss(pnl_percent) == pnl_percent <= 0 - 15

decision(action, reason, priority) ==
    [action |-> action, reason |-> reason, priority |-> priority]

\* _determine_action with the modest-profit rule starting above 10, which
\* leaves pnl_percent = 10 to no rule.
determine_action_gap_at_ten(holding, current_price, pnl_percent, fundamental, technical) ==
    LET fund_score == score_of(fundamental)
        tech_score == score_of(technical)
        strong(t) == fund_score >= 70 /\ tech_score >= t
    IN  IF /\ nonzero(holding.stop_loss)
           /\ near_stop_loss(holding.stop_loss[1], current_price)
        THEN decision(STOP_LOSS_HIT, "Price near stop loss", "URGENT")
        ELSE IF large_loss(pnl_percent)
        THEN IF fund_score < 40
             THEN decision(BOOK_ALL, "Large loss with weak fundamentals", "URGENT")
             ELSE decision(HOLD, "Down but fundamentals intact", "HIGH")
        ELSE IF /\ nonzero(holding.target_price)
                /\ current_price >= holding.target_price[1]
        THEN decision(BOOK_PARTIAL_50, "Target reached", "HIGH")
        ELSE IF pnl_percent >= 25
        THEN IF tech_score < 45
             THEN decision(BOOK_PARTIAL_50, "Profit but technicals weakening", "HIGH")
             ELSE IF pnl_percent >= 50
             THEN decision(BOOK_PARTIAL_25, "Large profit - secure some gains", "MEDIUM")
             ELSE decision(TRAILING_STOP, "Good profit - use trailing stop", "MEDIUM")
        ELSE IF fund_score < 35
        THEN decision(BOOK_ALL, "Fundamentals severely deteriorated", "HIGH")
        ELSE IF tech_score >= 75 /\ pnl_percent < 10
        THEN decision(ADD_MORE, "Strong technical setup - good to add", "MEDIUM")
        ELSE IF 10 < pnl_percent /\ pnl_percent < 25
        THEN IF strong(65)
             THEN decision(HOLD, "Profit - hold for more", "LOW")
             ELSE decision(BOOK_PARTIAL_25, "Profit - secure partial gains", "MEDIUM")
        ELSE IF 0 - 15 < pnl_percent /\ pnl_percent < 0
        THEN IF strong(60)
             THEN decision(ADD_MORE, "Down but fundamentals strong", "MEDIUM")
             ELSE decision(HOLD, "Down - monitor for improvement", "LOW")
        ELSE IF 0 <= pnl_percent /\ pnl_percent < 10
        THEN IF strong(70)
             THEN decision(HOLD, "Up with strong outlook - hold for more", "LOW")
             ELSE decision(HOLD, "Up - no action needed", "LOW")
        ELSE decision(HOLD, "Position stable - continue monitoring", "LOW")

determine_action(holding, current_price, pnl_percent, fundamental, technical) ==
    LET fund_score == score_of(fundamental)
        tech_score == score_of(technical)
        strong(t) == fund_score >= 70 /\ tech_score >= t
    IN  IF /\ nonzero(holding.stop_loss)
           /\ near_stop_loss(holding.stop_loss[1], current_price)
        THEN decision(STOP_LOSS_HIT, "Price near stop loss", "URGENT")
        ELSE IF large_loss(pnl_percent)
        THEN IF fund_score < 40
             THEN decision(BOOK_ALL, "Large loss with weak fundamentals", "URGENT")
             ELSE decision(HOLD, "Down but fundamentals intact", "HIGH")
        ELSE IF /\ nonzero(holding.target_price)
                /\ current_price >= holding.target_price[1]
        THEN decision(BOOK_PARTIAL_50, "Target reached", "HIGH")
        ELSE IF pnl_percent >= 25
        THEN IF tech_score < 45
             THEN decision(BOOK_PARTIAL_50, "Profit but technicals weakening", "HIGH")
             ELSE IF pnl_percent >= 50
             THEN decision(BOOK_PARTIAL_25, "Large profit - secure some gains", "MEDIUM")
             ELSE decision(TRAILING_STOP, "Good profit - use trailing stop", "MEDIUM")
        ELSE IF fund_score < 35
        THEN decision(BOOK_ALL, "Fundamentals severely deteriorated", "HIGH")
        ELSE IF tech_score >= 75 /\ pnl_percent < 10
        THEN decision(ADD_MORE, "Strong technical setup - good to add", "MEDIUM")
        ELSE IF 10 <= pnl_percent /\ pnl_percent < 25
        THEN IF strong(65)
             THEN decision(HOLD, "Profit - hold for more", "LOW")
             ELSE decision(BOOK_PARTIAL_25, "Profit - secure partial gains", "MEDIUM")
        ELSE IF 0 - 15 < pnl_percent /\ pnl_percent < 0
        THEN IF strong(60)
             THEN decision(ADD_MORE, "Down but fundamentals strong", "MEDIUM")
             ELSE decision(HOLD, "Down - monitor for improvement", "LOW")
        ELSE IF 0 <= pnl_percent /\ pnl_percent < 10
        THEN IF strong(70)
             THEN decision(HOLD, "Up with strong outlook - hold for more", "LOW")
             ELSE decision(HOLD, "Up - no action needed", "LOW")
        ELSE decision(HOLD, "Position stable - continue monitoring", "LOW")

\* The inputs the function is checked on.
StopLosses == {Missing, Some(0), Some(100)}
TargetPrices == {Missing, Some(0), Some(101)}
CurrentPrices == {0, 99, 100, 101, 102, 103, 126}
PnlPercents == {0 - 20, 0 - 15, 0 - 14, 0 - 1, 0, 9, 10, 24, 25, 26, 49, 50}
FundamentalResults ==
    {Missing} \cup
    {Some([score |-> sc]) :
        sc \in {Missing, Some(34), Some(35), Some(39), Some(40), Some(69), Some(70)}}
TechnicalResults ==
    {Missing} \cup
    {Some([score |-> sc]) :
        sc \in {Missing, Some(44), Some(45), Some(59), Some(60), Some(64),
                Some(65), Some(69), Some(70), Some(74), Some(75)}}

DecideArgs ==
    [holding : [stop_loss : StopLosses, target_price : TargetPrices],
     current_price : CurrentPrices,
     pnl_percent : PnlPercents,
     fundamental : FundamentalResults,
     technical : TechnicalResults]

DecideInit ==
    /\ args \in DecideArgs
    /\ ret = None
    /\ pc = "decide"
    /\ PipeIdle
    /\ PfIdle

decide ==
    /\ pc = "decide"
    /\ ret' = determine_action(args.holding, args.current_price,
                               args.pnl_percent, args.fundamental,
                               args.technical)
    /\ pc' = "decided"
    /\ UNCHANGED <<args, intent, state, initial_state, errors, progress,
                   tasks, trace, returned, pfVars>>

DecideNext == decide

SpecDecide == DecideInit /\ [][DecideNext]_vars

\* The stop loss of the checked call is set (a positive price; the code
\* takes 0 as no stop loss) and the price is at or above it, by at most 2%.
WithinTwoPercentAbove ==
    /\ args.holding.stop_loss # Missing
    /\ LET stop_loss == args.holding.stop_loss[1]
       IN  /\ stop_loss > 0
           /\ stop_loss <= args.current_price
           /\ 100 * args.current_price <= 102 * stop_loss

ProfitTaking == {BOOK_PARTIAL_25, BOOK_PARTIAL_50, BOOK_ALL, TRAILING_STOP}

\* C6: when the holding's stop loss is set and the current price is within
\* 2% above it, _determine_action returns STOP_LOSS_HIT with priority
\* URGENT, whatever pnl_percent, target_price and the scores are; the
\* result is never a profit-taking action.
C6_StopLossWins ==
    (pc = "decided" /\ WithinTwoPercentAbove) =>
        /\ ret.action = STOP_LOSS_HIT
        /\ ret.priority = "URGENT"
        /\ ret.action \notin ProfitTaking

\* A call exactly 2% above the stop loss on which the target-price rule and
\* the large-profit rule match as well.
C6_Witness ==
    /\ pc = "decided"
    /\ WithinTwoPercentAbove
    /\ 100 * args.current_price = 102 * args.holding.stop_loss[1]
    /\ nonzero(args.holding.target_price)
    /\ args.current_price >= args.holding.target_price[1]
    /\ args.pnl_percent >= 25
    /\ ret.action = STOP_LOSS_HIT

\* Rule 1 matches on the checked call: a stop loss is set and the price
\* is no more than 2% above it (at or below it included).
RuleOneMatches ==
    /\ args.holding.stop_loss # Missing
    /\ args.holding.stop_loss[1] > 0
    /\ 100 * args.current_price <= 102 * args.holding.stop_loss[1]

\* The scores the rules read: the result's score, 50 when the result or
\* its score is absent.
FundScore ==
    IF args.fundamental = Missing \/ args.fundamental[1].score = Missing
    THEN 50 ELSE args.fundamental[1].score[1]
TechScore ==
    IF args.technical = Missing \/ args.technical[1].score = Missing
    THEN 50 ELSE args.technical[1].score[1]

\* The target price is set (a positive price) and reached.
TargetReached ==
    /\ args.holding.target_price # Missing
    /\ args.holding.target_price[1] > 0
    /\ args.current_price >= args.holding.target_price[1]

\* Rules 2 to 9 as the ordered table <<rule, guard, action, priority>>;
\* the branches within a rule are consecutive rows.
RuleTable ==
    LET pnl == args.pnl_percent
        f == FundScore
        t == TechScore
    IN  << <<2, pnl <= 0 - 15 /\ f < 40, BOOK_ALL, "URGENT">>,
           <<2, pnl <= 0 - 15, HOLD, "HIGH">>,
           <<3, TargetReached, BOOK_PARTIAL_50, "HIGH">>,
           <<4, pnl >= 25 /\ t < 45, BOOK_PARTIAL_50, "HIGH">>,
           <<4, pnl >= 50, BOOK_PARTIAL_25, "MEDIUM">>,
           <<4, pnl >= 25, TRAILING_STOP, "MEDIUM">>,
           <<5, f < 35, BOOK_ALL, "HIGH">>,
           <<6, t >= 75 /\ pnl < 10, ADD_MORE, "MEDIUM">>,
           <<7, 10 <= pnl /\ pnl < 25 /\ f >= 70 /\ t >= 65, HOLD, "LOW">>,
           <<7, 10 <= pnl /\ pnl < 25, BOOK_PARTIAL_25, "MEDIUM">>,
           <<8, 0 - 15 < pnl /\ pnl < 0 /\ f >= 70 /\ t >= 60, ADD_MORE, "MEDIUM">>,
           <<8, 0 - 15 < pnl /\ pnl < 0, HOLD, "LOW">>,
           <<9, 0 <= pnl /\ pnl < 10, HOLD, "LOW">> >>

\* The rows of the table whose guard holds.
Matching == {k \in 1..Len(RuleTable) : RuleTable[k][2]}

\* C7: when rule 1 does not match, _determine_action returns the outcome of
\* the first matching rule in the order 2, 3, ..., 9, and HOLD with
\* priority LOW when none matches.
C7_FirstMatchWins ==
    (pc = "decided" /\ ~RuleOneMatches) =>
        IF Matching = {}
        THEN ret.action = HOLD /\ ret.priority = "LOW"
        ELSE LET first == CHOOSE k \in Matching : \A j \in Matching : k <= j
             IN  /\ ret.action = RuleTable[first][3]
                 /\ ret.priority = RuleTable[first][4]

\* A call on which rule 1 does not match although a stop loss is set, the
\* large-loss rule does not match either, and the target-price rule wins
\* over the large-profit rule and the weak-fundamentals rule, both of which
\* match as well.
C7_Witness ==
    /\ pc = "decided"
    /\ ~RuleOneMatches
    /\ nonzero(args.holding.stop_loss)
    /\ TargetReached
    /\ args.pnl_percent >= 50
    /\ TechScore >= 75
    /\ FundScore < 35
    /\ ret.action = BOOK_PARTIAL_50
    /\ ret.priority = "HIGH"

\* A call decided by the last rule of the table alone.
C7_WitnessLastRule ==
    /\ pc = "decided"
    /\ ~RuleOneMatches
    /\ Matching = {13}
    /\ FundScore >= 70 /\ TechScore >= 70
    /\ ret.reason = "Up with strong outlook - hold for more"

----------------------------------------------------------------------------
(* orchestrator/portfolio_workflow.py: analyze_portfolio                   *)
(*                                                                         *)
(* An entry of stock_analyses is a dict; the model keeps its keys ticker,  *)
(* error, action, priority and pnl_percent, the optional ones as           *)
(* Missing/Some.  returned tells how analyze_portfolio ended.              *)

\* The most holdings a portfolio of the model has.
MaxHoldings == 2

\* The rows db.get_portfolio can return.
HoldingTickers == {"TCS", "INFY", "RELIANCE"}

Holdings ==
    [ticker : HoldingTickers, quantity : {10}, avg_price : {100},
     stop_loss : {Missing, Some(100)}, target_price : {Missing}]

\* get_portfolio: the user's rows, in which add_to_portfolio keeps one row
\* per ticker (it updates the existing row instead of adding a second).
Portfolios ==
    UNION {{p \in [1..n -> Holdings] :
               \A i, j \in 1..n : p[i].ticker = p[j].ticker => i = j} :
           n \in 0..MaxHoldings}

\* The current price in the data yahoo.get_stock_data returns for a
\* holding, when it returns data (FetchOutcomes: data, None or raise).
HoldingPrices == {80, 101, 130}

\* The rest of _analyze_single_holding either raises before the producers
\* are gathered (the days-held arithmetic on buy_date) or completes.
BodyOutcomes == {"exc", "ok"}

\* What a gathered producer leaves in fundamental / technical: None after
\* an exception, else its result.
GatheredFundamental == {Missing, Some([score |-> Some(30)]), Some([score |-> Some(70)])}
GatheredTechnical == {Missing, Some([score |-> Some(40)]), Some([score |-> Some(80)])}

\* The entry for a holding without data, and the one the loop appends
\* when _analyze_single_holding raises.
error_entry_no_action(ticker, error) ==
    [ticker |-> ticker, error |-> Some(error), action |-> None,
     priority |-> Missing, pnl |-> Missing, pnl_percent |-> Missing]
error_entry(ticker, error) ==
    [ticker |-> ticker, error |-> Some(error), action |-> HOLD,
     priority |-> Missing, pnl |-> Missing, pnl_percent |-> Missing]

\* _analyze_single_holding once the data is there and nothing raises.
analyze_single_holding(holding, current_price, fundamental, technical) ==
    LET current_value == holding.quantity * current_price
        cost_basis == holding.quantity * holding.avg_price
        pnl == current_value - cost_basis
        pnl_percent == IF cost_basis > 0 THEN (pnl * 100) \div cost_basis ELSE 0
        action_result == determine_action(holding, current_price, pnl_percent,
                                          fundamental, technical)
    IN  [ticker |-> holding.ticker, error |-> Missing,
         action |-> action_result.action,
         priority |-> Some(action_result.priority),
         pnl |-> Some(pnl),
         pnl_percent |-> Some(pnl_percent)]

----------------------------------------------------------------------------
(* orchestrator/portfolio_workflow.py: _categorize_actions                 *)

\* The keys of the categories dict: every PortfolioAction but REBALANCE.
Categories ==
    {HOLD, ADD_MORE, BOOK_PARTIAL_25, BOOK_PARTIAL_50, BOOK_ALL,
     STOP_LOSS_HIT, TRAILING_STOP}

\* The loop: "if action in categories: categories[action].append(ticker)".
RECURSIVE categorize_into(_, _)
categorize_into(categories, analyses) ==
    IF analyses = <<>> THEN categories
    ELSE categorize_into(
            IF Head(analyses).action \in DOMAIN categories
            THEN [categories EXCEPT ![Head(analyses).action] =
                     Append(@, Head(analyses).ticker)]
            ELSE categories,
            Tail(analyses))

\* The categories dict without a TRAILING_STOP key.
categorize_actions_no_trailing(analyses) ==
    categorize_into([c \in Categories \ {TRAILING_STOP} |-> <<>>], analyses)

categorize_actions(analyses) ==
    categorize_into([c \in Categories |-> <<>>], analyses)

\* len(actions_summary.get(action, []))
bucket_size(actions_summary, action) ==
    IF action \in DOMAIN actions_summary THEN Len(actions_summary[action]) ELSE 0

----------------------------------------------------------------------------
(* orchestrator/portfolio_workflow.py: _generate_portfolio_insights        *)
(*                                                                         *)
(* total_pnl_percent is a float in the code; the model takes it in         *)
(* hundredths of a percent, rounded down, which leaves every comparison    *)
(* with a whole-number threshold unchanged.  An analysis is a record with  *)
(* the keys the function reads: ticker, pnl_percent and priority.          *)

\* The health bands with the tests for GOOD and NEUTRAL made strict.
overall_health_strict(total_pnl_percent) ==
    IF total_pnl_percent >= 1500 THEN "EXCELLENT"
    ELSE IF total_pnl_percent > 500 THEN "GOOD"
    ELSE IF total_pnl_percent > 0 - 500 THEN "NEUTRAL"
    ELSE IF total_pnl_percent >= 0 - 1500 THEN "CONCERNING"
    ELSE "POOR"

\* "if total_pnl_percent >= 15: ... elif >= 5: ... elif >= -5: ...
\*  elif >= -15: ... else: ..."
overall_health(total_pnl_percent) ==
    IF total_pnl_percent >= 1500 THEN "EXCELLENT"
    ELSE IF total_pnl_percent >= 500 THEN "GOOD"
    ELSE IF total_pnl_percent >= 0 - 500 THEN "NEUTRAL"
    ELSE IF total_pnl_percent >= 0 - 1500 THEN "CONCERNING"
    ELSE "POOR"

\* [a for a in analyses if a.get("pnl_percent") is not None]
with_pnl(analyses) == SelectSeq(analyses, LAMBDA a : a.pnl_percent # Missing)

\* list.insert keeping the list in descending order of pnl_percent, an
\* entry going behind the entries with an equal key.
RECURSIVE insert_desc(_, _)
insert_desc(sorted, a) ==
    IF sorted = <<>> THEN <<a>>
    ELSE IF Head(sorted).pnl_percent[1] >= a.pnl_percent[1]
    THEN <<Head(sorted)>> \o insert_desc(Tail(sorted), a)
    ELSE <<a>> \o sorted

\* sorted(..., key=pnl_percent, reverse=True): descending and stable.
RECURSIVE sorted_by_pnl(_)
sorted_by_pnl(analyses) ==
    IF analyses = <<>> THEN <<>>
    ELSE insert_desc(sorted_by_pnl(SubSeq(analyses, 1, Len(analyses) - 1)),
                     analyses[Len(analyses)])

\* {"ticker": p["ticker"], "pnl_percent": p["pnl_percent"]}
performer(p) == [ticker |-> p.ticker, pnl_percent |-> p.pnl_percent[1]]

\* "sorted_by_pnl[:3] if len(sorted_by_pnl) >= 3 else sorted_by_pnl", with
\* only the first two taken.
best_of_two(sorted) ==
    IF Len(sorted) >= 3 THEN SubSeq(sorted, 1, 2) ELSE sorted

\* "sorted_by_pnl[:3] if len(sorted_by_pnl) >= 3 else sorted_by_pnl"
best_of(sorted) ==
    IF Len(sorted) >= 3 THEN SubSeq(sorted, 1, 3) ELSE sorted

\* "sorted_by_pnl[-3:] if len(sorted_by_pnl) >= 3 else sorted_by_pnl"
worst_of(sorted) ==
    IF Len(sorted) >= 3 THEN SubSeq(sorted, Len(sorted) - 2, Len(sorted))
    ELSE sorted

\* sum(1 for a in analyses if a.get("priority") == p)
count_priority(analyses, p) ==
    Len(SelectSeq(analyses, LAMBDA a : a.priority = Some(p)))

generate_portfolio_insights(analyses, total_pnl_percent, actions_summary) ==
    LET sorted == sorted_by_pnl(with_pnl(analyses))
    IN  [overall_health |-> overall_health(total_pnl_percent),
         urgent_actions |-> count_priority(analyses, "URGENT"),
         high_priority_actions |-> count_priority(analyses, "HIGH"),
         best_performers |->
            [k \in DOMAIN best_of(sorted) |-> performer(best_of(sorted)[k])],
         worst_performers |->
            [k \in DOMAIN worst_of(sorted) |-> performer(worst_of(sorted)[k])],
         action_required_count |->
            bucket_size(actions_summary, BOOK_ALL)
            + bucket_size(actions_summary, STOP_LOSS_HIT)
            + bucket_size(actions_summary, BOOK_PARTIAL_50)]

\* "if analysis.get("pnl"): total_pnl += analysis["pnl"]" over the loop.
RECURSIVE total_pnl(_)
total_pnl(analyses) ==
    IF analyses = <<>> THEN 0
    ELSE total_pnl(Tail(analyses))
         + (IF nonzero(Head(analyses).pnl) THEN Head(analyses).pnl[1] ELSE 0)

\* sum(h.quantity * h.avg_price for h in holdings)
RECURSIVE total_invested(_)
total_invested(hs) ==
    IF hs = <<>> THEN 0
    ELSE Head(hs).quantity * Head(hs).avg_price + total_invested(Tail(hs))

\* (total_pnl / total_invested * 100) if total_invested > 0 else 0, in
\* hundredths of a percent.
total_pnl_percent(analyses, hs) ==
    IF total_invested(hs) > 0
    THEN (total_pnl(analyses) * 10000) \div total_invested(hs)
    ELSE 0

PortfolioInit ==
    /\ holdings \in Portfolios
    /\ idx = 0
    /\ stock_analyses = <<>>
    /\ pc = "analyze_portfolio"
    /\ PipeIdle
    /\ FnIdle

\* analyze_portfolio up to the loop: the user and portfolio lookups and
\* the first progress callback.
analyze_portfolio_start ==
    /\ pc = "analyze_portfolio"
    /\ \E user_found \in BOOLEAN, callback \in CallbackOutcomes :
          IF ~user_found
          THEN pc' = "pf_done" /\ returned' = "User not found" /\ idx' = idx
          ELSE IF holdings = <<>>
          THEN pc' = "pf_done" /\ returned' = "Portfolio is empty" /\ idx' = idx
          ELSE IF callback = "exc"
          THEN pc' = "pf_done" /\ returned' = "raised" /\ idx' = idx
          ELSE pc' = "loop" /\ returned' = returned /\ idx' = 1
    /\ UNCHANGED <<intent, state, initial_state, errors, progress, tasks,
                   trace, fnVars, holdings, stock_analyses>>

\* The two coroutines handed to asyncio.gather in _analyze_single_holding,
\* in the order of the call: fund_task, tech_task.
holding_tasks == <<"fundamental", "technical">>

\* A coroutine of the gather: not yet started, started, or ended with what
\* it leaves in fundamental / technical.
Pending == [status |-> "pending", result |-> Missing]

Gathered(i) == IF i = 1 THEN GatheredFundamental ELSE GatheredTechnical

\* One turn of the loop over the holdings, up to the await of the gather:
\* the progress callback, the fetch and the arithmetic before the producers.
\* A holding that cannot be analysed gets its entry here and the loop moves
\* on; otherwise the two producer coroutines are created and gathered.
analyze_holding ==
    /\ pc = "loop"
    /\ idx <= Len(holdings)
    /\ \E callback \in CallbackOutcomes, fetch \in FetchOutcomes,
          current_price \in HoldingPrices, body \in BodyOutcomes :
          LET holding == holdings[idx]
          IN  IF callback = "exc"
              THEN /\ pc' = "pf_done"
                   /\ returned' = "raised"
                   /\ UNCHANGED <<idx, stock_analyses, tasks, args>>
              ELSE IF fetch = "data" /\ body = "ok"
              THEN /\ pc' = "gather"
                   /\ tasks' = [i \in DOMAIN holding_tasks |-> Pending]
                   /\ args' = [current_price |-> current_price]
                   /\ UNCHANGED <<returned, idx, stock_analyses>>
              ELSE /\ pc' = pc
                   /\ returned' = returned
                   /\ idx' = idx + 1
                   /\ stock_analyses' =
                        Append(stock_analyses,
                               IF fetch = "none"
                               THEN error_entry(holding.ticker, "Could not fetch data")
                               ELSE error_entry(holding.ticker, "exception"))
                   /\ UNCHANGED <<tasks, args>>
    /\ UNCHANGED <<intent, state, initial_state, errors, progress, trace,
                   ret, holdings>>

\* The event loop starts the gathered coroutines in the order given; each
\* runs to its first suspension.
holding_task_start(i) ==
    /\ pc = "gather"
    /\ i \in DOMAIN tasks
    /\ tasks[i].status = "pending"
    /\ \A j \in 1..(i - 1) : tasks[j].status # "pending"
    /\ tasks' = [tasks EXCEPT ![i].status = "running"]
    /\ UNCHANGED <<intent, pc, state, initial_state, errors, progress, trace,
                   returned, fnVars, pfVars>>

\* A started producer ends: with its result, or with an exception that
\* gather keeps and the caller turns into None.
holding_task_finish(i) ==
    /\ pc = "gather"
    /\ i \in DOMAIN tasks
    /\ tasks[i].status = "running"
    /\ \E r \in Gathered(i) :
          tasks' = [tasks EXCEPT ![i] = [status |-> "done", result |-> r]]
    /\ UNCHANGED <<intent, pc, state, initial_state, errors, progress, trace,
                   returned, fnVars, pfVars>>

\* A gather that returns once the first coroutine has ended; the other
\* one's result is taken as None.
holding_gather_done_first == tasks[1].status = "done"

\* asyncio.gather returns when both coroutines have ended.
holding_gather_done == \A i \in DOMAIN tasks : tasks[i].status = "done"

\* After the gather: _determine_action, the returned dict is appended to
\* stock_analyses, and the loop goes to the next holding.
analyze_holding_finish ==
    /\ pc = "gather"
    /\ holding_gather_done
    /\ stock_analyses' =
          Append(stock_analyses,
                 analyze_single_holding(holdings[idx], args.current_price,
                                        tasks[1].result, tasks[2].result))
    /\ idx' = idx + 1
    /\ tasks' = <<>>
    /\ args' = None
    /\ pc' = "loop"
    /\ UNCHANGED <<intent, state, initial_state, errors, progress, trace,
                   returned, ret, holdings>>

\* After the loop: totals, summary, insights, save, return result.
analyze_portfolio_finish ==
    /\ pc = "loop"
    /\ idx > Len(holdings)
    /\ pc' = "pf_done"
    /\ returned' = "result"
    /\ ret' = [total_holdings |-> Len(holdings),
               total_pnl_percent |-> total_pnl_percent(stock_analyses, holdings),
               stock_analyses |-> stock_analyses,
               actions_summary |-> categorize_actions(stock_analyses),
               portfolio_insights |->
                  generate_portfolio_insights(
                      stock_analyses,
                      total_pnl_percent(stock_analyses, holdings),
                      categorize_actions(stock_analyses))]
    /\ UNCHANGED <<intent, state, initial_state, errors, progress, tasks,
                   trace, args, pfVars>>

PortfolioNext ==
    \/ analyze_portfolio_start
    \/ analyze_holding
    \/ \E i \in DOMAIN holding_tasks : holding_task_start(i)
    \/ \E i \in DOMAIN holding_tasks : holding_task_finish(i)
    \/ analyze_holding_finish
    \/ analyze_portfolio_finish

SpecPortfolio == PortfolioInit /\ [][PortfolioNext]_vars

\* stock_analyses has one entry per holding, in holding order, each with
\* one of the eight actions.
OneEntryPerHolding ==
    /\ Len(stock_analyses) = Len(holdings)
    /\ \A k \in 1..Len(holdings) :
          /\ stock_analyses[k].ticker = holdings[k].ticker
          /\ stock_analyses[k].action \in PortfolioAction

\* C8 (as claimed): analyze_portfolio on a non-empty portfolio returns one
\* entry per holding, in holding order, each with exactly one action among
\* the eight PortfolioAction values and exactly one priority among URGENT,
\* HIGH, MEDIUM, LOW, also for a holding whose fetch or analysis fails.
C8_ActionAndPriority ==
    (pc = "pf_done" /\ returned = "result") =>
        /\ OneEntryPerHolding
        /\ \A k \in 1..Len(stock_analyses) :
              /\ stock_analyses[k].priority # Missing
              /\ stock_analyses[k].priority[1] \in Priorities

\* C8 (amended): one entry per holding, in holding order, each with
\* exactly one of the eight actions; an entry of a holding whose data was
\* fetched and analysed carries exactly one of the four priorities, and an
\* entry of a holding whose fetch or analysis failed carries an error, the
\* action HOLD and no priority.
C8_PriorityUnlessFailed ==
    (pc = "pf_done" /\ returned = "result") =>
        /\ OneEntryPerHolding
        /\ \A k \in 1..Len(stock_analyses) :
              IF stock_analyses[k].error = Missing
              THEN /\ stock_analyses[k].priority # Missing
                   /\ stock_analyses[k].priority[1] \in Priorities
              ELSE /\ stock_analyses[k].priority = Missing
                   /\ stock_analyses[k].action = HOLD

\* A returned analysis with a failed holding followed by an analysed one.
C8_Witness ==
    /\ pc = "pf_done"
    /\ returned = "result"
    /\ Len(stock_analyses) = 2
    /\ stock_analyses[1].error = Some("Could not fetch data")
    /\ stock_analyses[1].priority = Missing
    /\ stock_analyses[2].error = Missing
    /\ stock_analyses[2].priority = Some("URGENT")

----------------------------------------------------------------------------
(* _generate_portfolio_insights as a function of its arguments             *)

MaxAnalyses == 4

AnalysisTickers == <<"TCS", "INFY", "RELIANCE", "HDFCBANK", "ITC", "SBIN">>

\* pnl_percent of an entry: absent for a failed holding.
EntryPnls == {Missing, Some(0 - 10), Some(5), Some(20)}

EntryPriorities == {"URGENT", "HIGH", "LOW"}

\* total_pnl_percent in hundredths of a percent: each threshold, its two
\* neighbours, and values well inside the outer bands.
HealthInputs ==
    {0 - 5000, 0 - 1501, 0 - 1500, 0 - 1499, 0 - 501, 0 - 500, 0 - 499, 0,
     499, 500, 501, 1499, 1500, 1501, 5000}

\* An action _determine_action returns with the priority.
action_with(priority) ==
    IF priority = "URGENT" THEN STOP_LOSS_HIT
    ELSE IF priority = "HIGH" THEN BOOK_PARTIAL_50
    ELSE HOLD

AnalysisLists ==
    UNION {{[i \in 1..n |->
               [ticker |-> AnalysisTickers[i],
                pnl_percent |-> pnls[i],
                priority |-> IF pnls[i] = Missing THEN Missing
                             ELSE Some(priority),
                action |-> IF pnls[i] = Missing THEN HOLD
                           ELSE action_with(priority)]] :
            pnls \in [1..n -> EntryPnls], priority \in EntryPriorities} :
           n \in 1..MaxAnalyses}

InsightArgs == [analyses : AnalysisLists, total_pnl_percent : HealthInputs]

InsightsInit ==
    /\ args \in InsightArgs
    /\ ret = None
    /\ pc = "insights"
    /\ PipeIdle
    /\ PfIdle

insights ==
    /\ pc = "insights"
    /\ ret' = generate_portfolio_insights(args.analyses, args.total_pnl_percent,
                                          categorize_actions(args.analyses))
    /\ pc' = "insights_done"
    /\ UNCHANGED <<args, intent, state, initial_state, errors, progress,
                   tasks, trace, returned, pfVars>>

InsightsNext == insights

SpecInsights == InsightsInit /\ [][InsightsNext]_vars

\* C19: overall_health is a total function of total_pnl_percent with exactly
\* one band per value: EXCELLENT iff value >= 15, GOOD iff 5 <= value < 15,
\* NEUTRAL iff -5 <= value < 5, CONCERNING iff -15 <= value < -5, POOR iff
\* value < -15.
C19_HealthBands ==
    pc = "insights_done" =>
        LET value == args.total_pnl_percent
            health == ret.overall_health
        IN  /\ health \in {"EXCELLENT", "GOOD", "NEUTRAL", "CONCERNING", "POOR"}
            /\ (health = "EXCELLENT") <=> (value >= 1500)
            /\ (health = "GOOD") <=> (500 <= value /\ value < 1500)
            /\ (health = "NEUTRAL") <=> (0 - 500 <= value /\ value < 500)
            /\ (health = "CONCERNING") <=> (0 - 1500 <= value /\ value < 0 - 500)
            /\ (health = "POOR") <=> (value < 0 - 1500)

C19_Witness ==
    /\ pc = "insights_done"
    /\ args.total_pnl_percent = 500
    /\ ret.overall_health = "GOOD"

C19_WitnessLowerEdge ==
    /\ pc = "insights_done"
    /\ args.total_pnl_percent = 0 - 1500
    /\ ret.overall_health = "CONCERNING"

\* The positions of the analyses that carry a pnl_percent.
Carrying == {i \in DOMAIN args.analyses : args.analyses[i].pnl_percent # Missing}

PnlAt(i) == args.analyses[i].pnl_percent[1]

Min2(a, b) == IF a <= b THEN a ELSE b

Max2(a, b) == IF a >= b THEN a ELSE b

\* How many of the carrying analyses have pnl_percent v, more than v, less
\* than v.
Equal(v) == Cardinality({i \in Carrying : PnlAt(i) = v})

Above(v) == Cardinality({i \in Carrying : PnlAt(i) > v})

Below(v) == Cardinality({i \in Carrying : PnlAt(i) < v})

Listed(list, v) == Cardinality({j \in DOMAIN list : list[j].pnl_percent = v})

\* Every element of the list is one of the carrying analyses, none twice.
DrawnFromCarrying(list) ==
    /\ \A j \in DOMAIN list :
          \E i \in Carrying : /\ list[j].ticker = args.analyses[i].ticker
                              /\ list[j].pnl_percent = PnlAt(i)
    /\ \A j1, j2 \in DOMAIN list : list[j1].ticker = list[j2].ticker => j1 = j2

\* C20: with k the number of holding analyses that carry a pnl_percent,
\* best_performers holds the min(3,k) holdings with the highest pnl_percent
\* and worst_performers the min(3,k) holdings with the lowest pnl_percent:
\* of each value v the list holds as many as are left of the min(3,k) places
\* after the values above v (below v) are served.
C20_BestAndWorst ==
    pc = "insights_done" =>
        LET k == Cardinality(Carrying)
            m == Min2(3, k)
            best == ret.best_performers
            worst == ret.worst_performers
        IN  /\ Len(best) = m
            /\ Len(worst) = m
            /\ DrawnFromCarrying(best)
            /\ DrawnFromCarrying(worst)
            /\ \A i \in Carrying :
                  /\ Listed(best, PnlAt(i))
                       = Min2(Equal(PnlAt(i)), Max2(0, m - Above(PnlAt(i))))
                  /\ Listed(worst, PnlAt(i))
                       = Min2(Equal(PnlAt(i)), Max2(0, m - Below(PnlAt(i))))

\* Four holdings carry a pnl_percent and the two lists differ.
C20_Witness ==
    /\ pc = "insights_done"
    /\ Cardinality(Carrying) = 4
    /\ Len(ret.best_performers) = 3
    /\ ret.best_performers[1].pnl_percent = 20
    /\ ret.worst_performers[3].pnl_percent = 0 - 10
    /\ ret.best_performers # ret.worst_performers

\* Two failed holdings are left out and both lists hold the other two.
C20_WitnessFailedExcluded ==
    /\ pc = "insights_done"
    /\ Len(args.analyses) = 4
    /\ Cardinality(Carrying) = 2
    /\ Len(ret.best_performers) = 2
    /\ ret.best_performers = ret.worst_performers

----------------------------------------------------------------------------
(* Properties of the portfolio result                                      *)

PortfolioDone == pc = "pf_done" /\ returned = "result"

\* The places of the action summary: a bucket and a position in it.
Places(actions_summary) ==
    UNION {{<<c, j>> : j \in DOMAIN actions_summary[c]} :
           c \in DOMAIN actions_summary}

PlacesOf(actions_summary, ticker) ==
    {pl \in Places(actions_summary) : actions_summary[pl[1]][pl[2]] = ticker}

\* C21: the action buckets partition the analysed holdings: every holding's
\* ticker appears in exactly one bucket, the bucket of the action decided
\* for it (HOLD for a holding whose analysis failed), so the bucket sizes
\* sum to the number of holdings.
C21_BucketsPartition ==
    PortfolioDone =>
        /\ \A i \in DOMAIN holdings :
              /\ Cardinality(PlacesOf(ret.actions_summary, holdings[i].ticker)) = 1
              /\ \E pl \in PlacesOf(ret.actions_summary, holdings[i].ticker) :
                    /\ pl[1] = stock_analyses[i].action
                    /\ stock_analyses[i].error # Missing => pl[1] = HOLD
        /\ Cardinality(Places(ret.actions_summary)) = Len(holdings)

\* One holding failed and sits in HOLD, the other is in TRAILING_STOP.
C21_Witness ==
    /\ PortfolioDone
    /\ Len(holdings) = 2
    /\ stock_analyses[1].error # Missing
    /\ ret.actions_summary[HOLD] = <<holdings[1].ticker>>
    /\ ret.actions_summary[TRAILING_STOP] = <<holdings[2].ticker>>

----------------------------------------------------------------------------
(* Further properties of the request pipeline (specification Spec) *)

SingleAspectTypes ==
    {TECHNICAL_ANALYSIS, FUNDAMENTAL_ANALYSIS, SENTIMENT_ANALYSIS}

\* How often a stage occurs among the stages entered.
Entries(node) == Cardinality({k \in DOMAIN trace.stages : trace.stages[k] = node})

\* The single-agent stage has run with stock data in the state.
SingleAgentRan ==
    /\ Entries("run_agent") = 1
    /\ pc # "run_agent"
    /\ Truthy(state.stock_data)

\* C22: a run invokes only the producers its topology names.  A PRICE_CHECK
\* run enters only the price-collection stage and starts no producer; a
\* TECHNICAL_ANALYSIS, FUNDAMENTAL_ANALYSIS or SENTIMENT_ANALYSIS run starts
\* no producer but the one of its intent type, starts exactly that one once
\* its agent stage has run with stock data, and leaves every other analysis
\* slot empty.
C22_OnlyTopologyProducers ==
    /\ intent.type = PRICE_CHECK =>
          /\ IsPrefix(trace.stages, <<"collect_price">>)
          /\ trace.started = {}
          /\ \A s \in AnalysisSlots : state[s] = None
    /\ intent.type \in SingleAspectTypes =>
          /\ trace.started \subseteq {single_agent_producer(intent.type)}
          /\ Entries("run_agent") <= 1
          /\ SingleAgentRan =>
                trace.started = {single_agent_producer(intent.type)}
          /\ \A s \in AnalysisSlots \ {single_agent_slot(intent.type)} :
                state[s] = None /\ initial_state[s] = None

\* A sentiment run returned with the market-intelligence slot filled by its
\* one producer.
C22_Witness ==
    /\ intent.type = SENTIMENT_ANALYSIS
    /\ pc = "returned"
    /\ returned = "final_state"
    /\ trace.started = {"market_intel"}
    /\ state.market_intel_analysis = "result"

\* A price check returned after its one stage.
C22_WitnessPriceCheck ==
    /\ intent.type = PRICE_CHECK
    /\ pc = "returned"
    /\ trace.stages = <<"collect_price">>
    /\ state.stock_data = "price"

\* The collection steps of a run and the slot each of their fetches fills.
CollectionSteps ==
    {"pre_collect", "collect_price", "collect_data", "collect_all_data",
     "collect_comparison_data"}

FetchesOf(node) ==
    CASE node \in {"pre_collect", "collect_all_data"}
            -> {"stock_data", "news_data", "market_data"}
      [] node = "collect_data" -> {"stock_data"}
      [] node = "collect_comparison_data" -> {"stock_data", "stock_data_2"}
      [] node = "collect_price" -> {"price"}

SlotOf(callee) == IF callee = "price" THEN "stock_data" ELSE callee

\* The step was entered and its fetch of callee returned a bundle, which
\* the step assigned to the callee's slot.
Wrote(node, callee) ==
    /\ Entries(node) > 0
    /\ callee \in FetchesOf(node)
    /\ \A o \in {"none", "exc"} : <<node, callee, o>> \notin trace.failed

Writers(slot) ==
    {node \in CollectionSteps :
        \E callee \in FetchesOf(node) :
            SlotOf(callee) = slot /\ Wrote(node, callee)}

DataSlots == {"stock_data", "stock_data_2", "news_data", "market_data"}

\* Inside a fan-out no two tasks are given the same slot.
FanOutSlotsDistinct ==
    \A node \in FanOutNodes :
        \A i, j \in DOMAIN gather_slot(node) :
            gather_slot(node)[i] = gather_slot(node)[j] => i = j

\* C23 (as claimed): in every run each result slot is written by exactly
\* one stage: no slot is assigned by two different stages or collection
\* steps of the same run, and the tasks of a fan-out never write the same
\* slot.
C23_OneWriterPerSlot ==
    /\ \A slot \in DataSlots : Cardinality(Writers(slot)) <= 1
    /\ FanOutSlotsDistinct

\* What holds: stock_data of a sentiment run is the one slot with two
\* writers (the pre-collection and the collect_data node).
C23_ExceptSentimentStockData ==
    /\ \A slot \in DataSlots :
          Cardinality(Writers(slot)) > 1 =>
              /\ slot = "stock_data"
              /\ intent.type = SENTIMENT_ANALYSIS
              /\ Writers(slot) = {"pre_collect", "collect_data"}
    /\ FanOutSlotsDistinct

\* An analysis slot that holds a result is not assigned again.
C23_AnalysisSlotsWrittenOnce ==
    [][\A s \in AnalysisSlots : state[s] # None => state'[s] = state[s]]_vars

\* The bundle without history that the pre-collection stored is replaced by
\* the collect_data node.
C23_StockDataOverwritten ==
    /\ intent.type = SENTIMENT_ANALYSIS
    /\ <<"pre_collect", "stock_data", "data_nohist">> \in trace.failed
    /\ state.stock_data = "data"
    /\ initial_state.stock_data = "data_nohist"

\* C25 (as claimed): a DEEP_DIVE run executes the same stages in the same
\* order as a STANDARD run on the same ticker and differs from it in a
\* detail-mode flag passed into the producers' inputs: the input of every
\* producer it starts has a key the STANDARD run's input lacks.
C25_DetailFlag ==
    intent.type = DEEP_DIVE =>
        /\ IsPrefix(trace.stages, StandardStages)
        /\ \A p \in trace.started :
              producer_input(DEEP_DIVE, p) \ producer_input(FULL_ANALYSIS, p) # {}

\* What holds: the DEEP_DIVE run is the STANDARD run, stage for stage and
\* input for input.
C25_SameAsStandard ==
    intent.type = DEEP_DIVE =>
        /\ graph_map(DEEP_DIVE) = graph_map(FULL_ANALYSIS)
        /\ IsPrefix(trace.stages, StandardStages)
        /\ pc = "returned" /\ Truthy(GraphState(intent).ticker) =>
              trace.stages = StandardStages
        /\ \A p \in trace.started :
              producer_input(DEEP_DIVE, p) = producer_input(FULL_ANALYSIS, p)

\* A deep dive ran all four stages and all five producers.
C25_DeepDiveRan ==
    /\ intent.type = DEEP_DIVE
    /\ pc = "returned"
    /\ trace.stages = StandardStages
    /\ trace.started = FanOutProducers \cup {"risk", "synthesizer"}

\* A step that appends an entry to stock_analyses.
RecordsDecision == Len(stock_analyses') = Len(stock_analyses) + 1

\* A step that takes up the holding at idx: the loop leaves its head.
StartsHolding ==
    /\ pc = "loop"
    /\ idx <= Len(holdings)
    /\ <<pc, idx, stock_analyses>>' # <<pc, idx, stock_analyses>>

\* Holdings are taken one after another: a holding is taken up only when
\* every earlier holding has its entry, and while its producers run no
\* entry is added.
OneAfterAnother ==
    /\ StartsHolding => Len(stock_analyses) = idx - 1
    /\ pc = "gather" /\ pc' = "gather" => stock_analyses' = stock_analyses

\* The action of an analysed holding is determined only when both
\* producers have ended, from what they left.
BothBeforeAction ==
    RecordsDecision /\ pc = "gather" =>
        /\ \A i \in DOMAIN tasks : tasks[i].status = "done"
        /\ stock_analyses'[Len(stock_analyses')] =
              analyze_single_holding(holdings[idx], args.current_price,
                                     tasks[1].result, tasks[2].result)

\* C24 (as claimed): analyze_portfolio processes holdings strictly one after
\* another, with a fixed delay between consecutive holdings (after the
\* entry of a holding that is not the last the workflow sleeps), and within
\* one holding both producers have finished before the action is
\* determined.
C24_SequentialWithDelay ==
    [][/\ OneAfterAnother
       /\ BothBeforeAction
       /\ RecordsDecision /\ idx < Len(holdings) => pc' = "sleep"]_vars

\* C24 (amended): holdings are processed strictly one after another and the
\* next holding is taken up directly, with no delay in between; within one
\* holding both producers have finished before the action is determined.
C24_SequentialNoDelay ==
    [][/\ OneAfterAnother
       /\ BothBeforeAction
       /\ RecordsDecision /\ idx < Len(holdings) => pc' = "loop"]_vars

\* The second holding's two producers are running at the same time, the
\* first holding's entry being recorded.
C24_Witness ==
    /\ pc = "gather"
    /\ idx = 2
    /\ Len(stock_analyses) = 1
    /\ stock_analyses[1].error = Missing
    /\ \A i \in DOMAIN tasks : tasks[i].status = "running"

----------------------------------------------------------------------------
(* _run_synthesis and SynthesizerAgent.analyze: from the slots to the      *)
(* arguments of _calculate_weighted_scores                                 *)

\* dict.get(key, default) on a dict given as a function of its keys.
dict_get(d, key, default) == IF key \in DOMAIN d THEN d[key] ELSE default

\* The empty dict {} as an analysis: every key it is asked for is missing.
empty_dict ==
    [k \in {"score", "rating", "signal", "overall_sentiment", "risk_score",
            "time_horizon"} |-> Missing]

\* _run_synthesis: the dict handed to synthesizer_agent.analyze.
run_synthesis_data(st) ==
    [stock_data |-> st.stock_data,
     fundamental |-> st.fundamental_analysis,
     technical |-> st.technical_analysis,
     market_intel |-> st.market_intel_analysis,
     risk |-> st.risk_analysis]

\* SynthesizerAgent.analyze up to the call of _calculate_weighted_scores.
synthesizer_scores(data) ==
    calculate_weighted_scores(
        dict_get(data, "fundamental_analysis", empty_dict),
        dict_get(data, "technical_analysis", empty_dict),
        dict_get(data, "market_intel_analysis", empty_dict),
        dict_get(data, "risk_analysis", empty_dict),
        dict_get(data, "user_context", empty_dict))

\* Populated slots: every producer returned its score and its signal.
PopulatedScores == {Some(0), Some(50), Some(100)}

PopulatedSlots ==
    [stock_data : {"data"},
     fundamental_analysis : [score : PopulatedScores, rating : Ratings \ {Missing}],
     technical_analysis : [score : PopulatedScores, signal : Signals \ {Missing}],
     market_intel_analysis : [score : PopulatedScores, overall_sentiment : Sentiments],
     risk_analysis : [risk_score : PopulatedScores]]

SynthesisInit ==
    /\ args \in PopulatedSlots
    /\ ret = None
    /\ pc = "synthesis"
    /\ PipeIdle
    /\ PfIdle

synthesis_scores ==
    /\ pc = "synthesis"
    /\ ret' = synthesizer_scores(run_synthesis_data(args))
    /\ pc' = "synthesis_done"
    /\ UNCHANGED <<args, intent, state, initial_state, errors, progress,
                   tasks, trace, returned, pfVars>>

SynthesisNext == synthesis_scores

SpecSynthesis == SynthesisInit /\ [][SynthesisNext]_vars

\* C26 (as claimed): with the fundamental, technical, sentiment and risk
\* slots populated, the component scores and signals the synthesizer
\* weights are the ones stored in the slots, not the neutral defaults.
C26_SlotScoresWeighted ==
    pc = "synthesis_done" =>
        /\ ret.fundamental_score = args.fundamental_analysis.score[1]
        /\ ret.technical_score = args.technical_analysis.score[1]
        /\ ret.market_intel_score = args.market_intel_analysis.score[1]
        /\ ret.risk_score = args.risk_analysis.risk_score[1]
        /\ ret = calculate_weighted_scores(
                    args.fundamental_analysis, args.technical_analysis,
                    args.market_intel_analysis, args.risk_analysis,
                    empty_dict)

\* What holds: whatever the slots hold, the synthesizer weights the neutral
\* defaults.
C26_NeutralDefaultsWeighted ==
    pc = "synthesis_done" =>
        /\ ret.fundamental_score = 50
        /\ ret.technical_score = 50
        /\ ret.market_intel_score = 50
        /\ ret.risk_score = 50
        /\ ret.weighted_average = 5000
        /\ ret = calculate_weighted_scores(empty_dict, empty_dict, empty_dict,
                                           empty_dict, empty_dict)

\* Slots with extreme scores and a STRONG_SELL rating, weighted as 50s.
C26_ScoresIgnored ==
    /\ pc = "synthesis_done"
    /\ args.fundamental_analysis.score = Some(0)
    /\ args.technical_analysis.score = Some(100)
    /\ args.risk_analysis.risk_score = Some(100)
    /\ ret.fundamental_score = 50
    /\ ret.conflicts = <<>>

----------------------------------------------------------------------------
(* The progress callback raising after the graph has finished *)

\* C27 (as claimed): an exception raised by the progress callback after the
\* graph has finished does not discard the analysis: the state run returns
\* still contains every slot the stages produced (it agrees with the
\* graph's final state on every slot) and every error entry they produced.
C27_CallbackKeepsAnalysis ==
    ExecutionFailed =>
        /\ \A s \in SlotNames : ReturnedState[s] = state[s]
        /\ Len(errors) >= 1

\* What holds of the slots: the returned dict has none of the results the
\* graph's nodes assigned; at most the data a sentiment run collected before
\* the graph started.
C27_AnalysisDiscarded ==
    ExecutionFailed =>
        /\ \A s \in AnalysisSlots : ReturnedState[s] = None
        /\ \E s \in SlotNames : state[s] # None

\* What holds of the errors: the failing return adds its entry behind the
\* entries of the stages.
C27_ErrorsKept ==
    [][pc = END /\ returned' = "initial_state" =>
          errors' = Append(errors, "Execution error")]_vars

\* A full analysis ended with a recommendation, the callback raised, and
\* the returned dict has no recommendation.
C27_RecommendationLost ==
    /\ ExecutionFailed
    /\ intent.type = FULL_ANALYSIS
    /\ state.synthesized_recommendation = "result"
    /\ state.risk_analysis = "result"
    /\ ReturnedState.synthesized_recommendation = None
    /\ errors = <<"Execution error">>

----------------------------------------------------------------------------
(* Further properties of _determine_action (specification SpecDecide) *)

\* The price is at or below a stop loss that is set and positive.
AtOrBelowStop ==
    /\ args.holding.stop_loss # Missing
    /\ args.holding.stop_loss[1] > 0
    /\ args.current_price <= args.holding.stop_loss[1]

\* C28: rule 1 fires exactly when stop_loss is set and non-zero and
\* (current_price - stop_loss) / stop_loss * 100 <= 2.  A price at or below
\* the stop loss yields STOP_LOSS_HIT/URGENT as well, and a holding whose
\* stop_loss is unset or 0 never yields STOP_LOSS_HIT.
C28_RuleOneExactly ==
    pc = "decided" =>
        /\ (ret.action = STOP_LOSS_HIT) <=> RuleOneMatches
        /\ RuleOneMatches =>
              ret = decision(STOP_LOSS_HIT, "Price near stop loss", "URGENT")
        /\ AtOrBelowStop => ret.action = STOP_LOSS_HIT /\ ret.priority = "URGENT"
        /\ ~nonzero(args.holding.stop_loss) => ret.action # STOP_LOSS_HIT

\* A call with the price below the stop loss and a pnl_percent of the
\* large-loss rule.
C28_Witness ==
    /\ pc = "decided"
    /\ AtOrBelowStop
    /\ args.current_price < args.holding.stop_loss[1]
    /\ args.pnl_percent <= 0 - 15
    /\ ret.action = STOP_LOSS_HIT
    /\ ret.priority = "URGENT"

\* A call with stop_loss 0 and price 0, decided by a later rule.
C28_WitnessZeroStop ==
    /\ pc = "decided"
    /\ args.holding.stop_loss = Some(0)
    /\ args.current_price = 0
    /\ ret.action # STOP_LOSS_HIT

\* The bands of pnl_percent that rules 2, 8, 9, 7 and 4 are guarded by.
PnlBands ==
    LET pnl == args.pnl_percent
    IN  <<pnl <= 0 - 15, 0 - 15 < pnl /\ pnl < 0, 0 <= pnl /\ pnl < 10,
          10 <= pnl /\ pnl < 25, pnl >= 25>>

Fallback == decision(HOLD, "Position stable - continue monitoring", "LOW")

\* C29: the guards of rules 2, 4, 7, 8 and 9 cover every value of
\* pnl_percent (exactly one of the five bands holds), so every call returns
\* from one of rules 1-9 and never from the final fallback.
C29_FallbackUnreached ==
    pc = "decided" =>
        /\ Cardinality({k \in DOMAIN PnlBands : PnlBands[k]}) = 1
        /\ RuleOneMatches \/ Matching # {}
        /\ ret # Fallback
        /\ ret.reason # "Position stable - continue monitoring"

\* A call at the seam of two bands (pnl_percent = 10) that rules 1, 3, 5
\* and 6 leave alone: the modest-profit rule decides it.
C29_Witness ==
    /\ pc = "decided"
    /\ args.pnl_percent = 10
    /\ ~RuleOneMatches
    /\ ~TargetReached
    /\ FundScore >= 35
    /\ TechScore < 75
    /\ ret.reason = "Profit - secure partial gains"

\* Neither producer left a result: each raised or returned nothing.
BothUnavailable == args.fundamental = Missing /\ args.technical = Missing

\* C30: when both the fundamental and the technical analysis of a holding
\* are unavailable, the decision is computed with the neutral score 50 for
\* both, so the action is never BOOK_ALL and never ADD_MORE: it is
\* STOP_LOSS_HIT, HOLD, BOOK_PARTIAL_50 (only with the target reached),
\* BOOK_PARTIAL_25 or TRAILING_STOP.
C30_NeutralOutcomes ==
    (pc = "decided" /\ BothUnavailable) =>
        /\ ret = determine_action(args.holding, args.current_price,
                                  args.pnl_percent,
                                  Some([score |-> Some(50)]),
                                  Some([score |-> Some(50)]))
        /\ ret.action \in {STOP_LOSS_HIT, HOLD, BOOK_PARTIAL_50,
                           BOOK_PARTIAL_25, TRAILING_STOP}
        /\ ret.action = BOOK_PARTIAL_50 => TargetReached

\* A large loss without either analysis is held, not sold.
C30_Witness ==
    /\ pc = "decided"
    /\ BothUnavailable
    /\ ~RuleOneMatches
    /\ args.pnl_percent <= 0 - 15
    /\ ret = decision(HOLD, "Down but fundamentals intact", "HIGH")

====
